---- MODULE Spec2Model ----
(***************************************************************************)
(* A model of atuyka's pagination engine (services/base/paginator.py) and  *)
(* of its service registry (services/base/client.py).                      *)
(*                                                                         *)
(* Several specifications share the module, one per object under study:    *)
(*   SpecPage   a UniversalPaginator pulled item by item,                  *)
(*   SpecMerge  a MergedPaginator pulled item by item or flattened,        *)
(*   SpecDrain  either paginator, pulled item by item and flattened,       *)
(*   SpecReg    the ServiceClient registry (declaration, lookup, create),  *)
(*   SpecMeta   ServiceMethod.from_method and to_schema on one method.     *)
(***************************************************************************)
EXTENDS Integers, Sequences, FiniteSets, TLC

VARIABLES
    \* ---- UniversalPaginator (SpecPage) ----
    pages,        \* what the endpoint serves: a list of pages, each a list of items
    pager,        \* the UniversalPaginator object: limit, buffer, counter, next_params
    yielded,      \* history: the items returned by __anext__ so far, in order
    calls,        \* history: the parameters of every endpoint call so far, in order
    last,         \* outcome of the latest __anext__: none / item / StopAsyncIteration / error
    stopped,      \* history: __anext__ has raised StopAsyncIteration at least once
    late_pulls,   \* history: number of pulls made after the first StopAsyncIteration
    errors,       \* history: number of endpoint calls that raised
    p_flattened,  \* history: the one flatten() call made on the paginator, if any
    \* ---- MergedPaginator (SpecMerge) ----
    iterables,    \* the constructor's sources: a list of lists of items
    iters,        \* the source iterators' states: what each has not produced yet
    merged,       \* the MergedPaginator object: iterators, heap, limit, key, prepared, counter
    out,          \* history: <<value, iterator>> of every item returned by __anext__
    m_last,       \* outcome of the latest __anext__
    m_stopped,    \* history: __anext__ has raised StopAsyncIteration at least once
    m_late,       \* history: number of pulls made after the first StopAsyncIteration
    m_pulls,      \* history: per __anext__, the it.__anext__() calls it made and its outcome
    flattened,    \* history: the one flatten() call made, if any, and what it returned
    \* ---- ServiceClient registry (SpecReg) ----
    subclasses,   \* ServiceClient.__subclasses__(): the declared client types, in order
    imported,     \* the service modules already imported (sys.modules)
    broken,       \* the service modules whose import raises in this process
    clients,      \* history: the client instances constructed: <<type, token>>
    r_last,       \* outcome of the latest registry operation
    ncalls,       \* history: number of create, load_services and lookup calls made
    \* ---- ServiceMethod (SpecMeta) ----
    method,       \* the method given to from_method: name, doc, parameters
    metadata,     \* the ServiceMethod from_method returned, if it was called
    schema,       \* what to_schema returned for it, if it was called
    \* ---- MergedPaginator, the gather of _prepare step by step (SpecFan) ----
    f_iterables,  \* the items of each source, as given to the constructor
    f_iters,      \* what each source's iterator has not handed over yet
    f_merged,     \* the paginator
    f_pc,         \* "idle" between pulls, "gather" while _prepare awaits the gather
    f_pending,    \* the sources whose first __anext__ has not completed
    f_results,    \* the outcome of each completed first __anext__, by source
    f_completed,  \* history: the sources in the order their first __anext__ completed
    f_heap0,      \* history: the heap as _prepare left it when it last returned
    f_out,        \* history: the items returned by __anext__
    f_last,       \* outcome of the latest __anext__
    f_errors,     \* history: number of source calls that raised
    \* ---- the API's user routes and exception_handler (SpecApi) ----
    a_path,       \* request.url.path of the request being served
    a_my_user_id, \* client.my_user_id of the client the request gets
    a_exc,        \* the AtuykaError the request raised, if any
    a_response,   \* the response to the request, once it is served
    a_hops,       \* history: number of redirects followed
    a_seen,       \* history: the paths requested so far
    \* ---- utility.Cache (SpecCache) ----
    c_cache,      \* self.cache: the entries in dict order, each key, expiry and value
    c_maxsize,    \* self.maxsize
    c_ttl,        \* self.ttl
    c_now,        \* what time.time() returns
    c_last,       \* the latest operation and what it returned
    c_recent      \* history: the keys ever set, in the order of their latest set or bump

page_vars == <<pages, pager, yielded, calls, last, stopped, late_pulls, errors, p_flattened>>
merge_vars == <<iterables, iters, merged, out, m_last, m_stopped, m_late, m_pulls, flattened>>

reg_vars == <<subclasses, imported, broken, clients, r_last, ncalls>>

meta_vars == <<method, metadata, schema>>

fan_vars == <<f_iterables, f_iters, f_merged, f_pc, f_pending, f_results, f_completed,
              f_heap0, f_out, f_last, f_errors>>

api_vars == <<a_path, a_my_user_id, a_exc, a_response, a_hops, a_seen>>

cache_vars == <<c_cache, c_maxsize, c_ttl, c_now, c_last, c_recent>>

vars == <<page_vars, merge_vars, reg_vars, meta_vars, fan_vars, api_vars, cache_vars>>

(***************************************************************************)
(* Bounds of the model.                                                    *)
(***************************************************************************)
MaxPages == 2        \* pages the endpoint serves
MaxItems == 3        \* items over all pages / over all merge sources
MaxItem == 1         \* items are drawn from 0..MaxItem
MaxLatePulls == 2    \* pulls made after the first exhaustion signal
MaxFailures == 1     \* endpoint calls that raise
MaxSources == 2      \* sources of a MergedPaginator
MaxDeclared == 2     \* client types declared outside the services package
MaxCalls == 2        \* registry operations (create, load_services) per behaviour
MaxNameParts == 2    \* parts of a method name
MaxDocLines == 2     \* lines of a method's docstring
MaxParams == 2       \* parameters of a method
MaxFanSources == 3   \* sources of a MergedPaginator whose gather is followed step by step
MaxFanItems == 2     \* items over all of those sources
MaxFanFailures == 2  \* first calls of sources that raise
MaxHops == 2         \* redirects a client follows
MaxSize == 2         \* maxsize of a Cache
MaxTime == 2         \* seconds the clock advances while a Cache is used
MaxTtl == 2          \* a ttl, in seconds

(***************************************************************************)
(* Python values.                                                          *)
(***************************************************************************)
\* None, and a value that is not None, kept apart by their length.
Null == <<>>
Some(x) == <<x>>

\* A test of the limit that tells None only from an int.
TruthyNotNone(limit) == limit # <<>>

\* bool(limit) for limit: int | None -- None and 0 are both falsy.
Truthy(limit) == limit # Null /\ limit[1] # 0

Items == 0..MaxItem

RECURSIVE Sum(_)
Sum(s) == IF s = <<>> THEN 0 ELSE Head(s) + Sum(Tail(s))

RECURSIVE Concat(_)
Concat(ss) == IF ss = <<>> THEN <<>> ELSE Head(ss) \o Concat(Tail(ss))

\* The first n elements of s (all of s when it is shorter): s[:n] for n >= 0.
Take(s, n) == SubSeq(s, 1, IF n < Len(s) THEN n ELSE Len(s))

\* The lists of at most k lists that hold at most n items of S altogether.
Shapes(k, n) == {sh \in UNION {[1..j -> 0..n] : j \in 0..k} : Sum(sh) <= n}
RECURSIVE Cut(_, _)
Cut(flat, sh) ==
    IF sh = <<>> THEN <<>>
    ELSE <<SubSeq(flat, 1, Head(sh))>> \o Cut(SubSeq(flat, Head(sh) + 1, Len(flat)), Tail(sh))
ListsOfLists(S, k, n) ==
    UNION {{Cut(flat, sh) : flat \in [1..Sum(sh) -> S]} : sh \in Shapes(k, n)}

Limits == {Null} \cup {Some(n) : n \in 0..(MaxItems + 1)}

(***************************************************************************)
(* UniversalPaginator / BufferedPaginator.                                 *)
(***************************************************************************)
\* self._next_params = {} : the parameters of the first call.
FirstParams == 0

\* The endpoint: the call with FirstParams serves page 1, the call with page
\* i's next serves page i+1; only the last page has next = None.
Endpoint(params) ==
    LET i == params + 1
    IN  [items |-> pages[i], next |-> IF i = Len(pages) THEN Null ELSE Some(i)]

\* BufferedPaginator.__init__ and UniversalPaginator.__init__
NewPager(limit) ==
    [limit |-> limit, buffer |-> Some(<<>>), counter |-> 0, next_params |-> Some(FirstParams)]

\* BufferedPaginator.exhausted
Exhausted(p) == p.buffer = Null

NoValue == <<>>
StopAsyncIteration == [kind |-> "StopAsyncIteration", value |-> NoValue]
FetchError == [kind |-> "FetchError", value |-> NoValue]
Item(v) == [kind |-> "item", value |-> <<v>>]
NoPull == [kind |-> "none", value |-> NoValue]

\* No registry operation was made yet.
NoCall == [op |-> "none"]

\* No flatten() call was made yet.
NotFlattened ==
    [done |-> FALSE, lazy |-> FALSE, items |-> <<>>, pulls |-> 0, fresh |-> FALSE, raised |-> Null]
NotFlattenedPage == [done |-> FALSE, items |-> <<>>, pulls |-> 0, raised |-> Null]

\* No method was given to from_method.
NoMethod == [name |-> <<>>, doc |-> Null, parameters |-> <<>>]

\* BufferedPaginator._complete: drop the buffer, raise StopAsyncIteration.
CompleteKeepsBuffer(p) == [p |-> p, result |-> StopAsyncIteration, called |-> Null]

Complete(p) == [p |-> [p EXCEPT !.buffer = Null], result |-> StopAsyncIteration, called |-> Null]

\* next_page that forgets to store page.next.
NextPageSkipsStore(p, fails) ==
    IF p.next_params = Null THEN [p |-> p, page |-> Null, raised |-> FALSE, called |-> Null]
    ELSE IF fails THEN [p |-> p, page |-> Null, raised |-> TRUE, called |-> p.next_params]
    ELSE [p |-> p, page |-> Some(Endpoint(p.next_params[1]).items),
          raised |-> FALSE, called |-> p.next_params]

\* next_page that starts over from the first page once next is None.
NextPageIgnoresEnd(p, fails) ==
    LET params == IF p.next_params = Null THEN Some(FirstParams) ELSE p.next_params
    IN  IF fails THEN [p |-> p, page |-> Null, raised |-> TRUE, called |-> params]
        ELSE LET page == Endpoint(params[1])
             IN  [p |-> [p EXCEPT !.next_params = page.next], page |-> Some(page.items),
                  raised |-> FALSE, called |-> params]

\* UniversalPaginator.next_page; fails: the endpoint raises on this call.
\* page is None (Null), or the fetched page's items.
NextPage(p, fails) ==
    IF p.next_params = Null THEN [p |-> p, page |-> Null, raised |-> FALSE, called |-> Null]
    ELSE IF fails THEN [p |-> p, page |-> Null, raised |-> TRUE, called |-> p.next_params]
    ELSE LET page == Endpoint(p.next_params[1])
         IN  [p |-> [p EXCEPT !.next_params = page.next], page |-> Some(page.items),
              raised |-> FALSE, called |-> p.next_params]

\* The limit test of BufferedPaginator.__anext__ (line 130).
LimitReachedOffByOne(p) == Truthy(p.limit) /\ p.counter > p.limit[1]

LimitReached(p) == Truthy(p.limit) /\ p.counter >= p.limit[1]

\* __anext__ that signals exhaustion on an empty page without _complete().
AnextForgetsComplete(p, fails) ==
    IF Exhausted(p) THEN Complete(p)
    ELSE IF LimitReached(p) THEN Complete(p)
    ELSE LET q == [p EXCEPT !.counter = @ + 1]
         IN  IF q.buffer[1] # <<>>
             THEN [p |-> [q EXCEPT !.buffer = Some(Tail(@[1]))],
                   result |-> Item(Head(q.buffer[1])), called |-> Null]
             ELSE LET np == NextPage(q, fails)
                  IN  IF np.raised
                      THEN [p |-> np.p, result |-> FetchError, called |-> np.called]
                      ELSE IF np.page = Null THEN [Complete(np.p) EXCEPT !.called = np.called]
                      ELSE IF np.page[1] = <<>>
                      THEN [p |-> np.p, result |-> StopAsyncIteration, called |-> np.called]
                      ELSE [p |-> [np.p EXCEPT !.buffer = Some(Tail(np.page[1]))],
                            result |-> Item(Head(np.page[1])), called |-> np.called]

\* BufferedPaginator.__anext__
Anext(p, fails) ==
    IF Exhausted(p) THEN Complete(p)
    ELSE IF LimitReached(p) THEN Complete(p)
    ELSE LET q == [p EXCEPT !.counter = @ + 1]
         IN  IF q.buffer[1] # <<>>
             THEN [p |-> [q EXCEPT !.buffer = Some(Tail(@[1]))],
                   result |-> Item(Head(q.buffer[1])), called |-> Null]
             ELSE LET np == NextPage(q, fails)
                  IN  IF np.raised
                      THEN [p |-> np.p, result |-> FetchError, called |-> np.called]
                      ELSE IF np.page = Null \/ np.page[1] = <<>>
                      THEN [Complete(np.p) EXCEPT !.called = np.called]
                      ELSE [p |-> [np.p EXCEPT !.buffer = Some(Tail(np.page[1]))],
                            result |-> Item(Head(np.page[1])), called |-> np.called]

(***************************************************************************)
(* heapq, as MergedPaginator uses it: a list kept in heap order.           *)
(* Positions are 0-based as in heapq; heap[pos + 1] is Python's heap[pos]. *)
(***************************************************************************)
\* a < b for heap entries (sort_value, order, value, iterator): tuples
\* compare item by item. Two entries of one heap never agree on order, so
\* the comparison never reaches the value or the iterator.
Less(a, b) ==
    \/ a.sort_value < b.sort_value
    \/ a.sort_value = b.sort_value /\ a.order < b.order
    \/ a.sort_value = b.sort_value /\ a.order = b.order /\ a.value < b.value

RECURSIVE SiftdownLoop(_, _, _, _)
SiftdownLoop(heap, startpos, pos, newitem) ==
    IF pos > startpos
    THEN LET parentpos == (pos - 1) \div 2
             parent == heap[parentpos + 1]
         IN  IF Less(newitem, parent)
             THEN SiftdownLoop([heap EXCEPT ![pos + 1] = parent], startpos, parentpos, newitem)
             ELSE [heap EXCEPT ![pos + 1] = newitem]
    ELSE [heap EXCEPT ![pos + 1] = newitem]

\* heapq._siftdown
Siftdown(heap, startpos, pos) == SiftdownLoop(heap, startpos, pos, heap[pos + 1])

RECURSIVE SiftupLoop(_, _, _)
SiftupLoop(heap, pos, childpos) ==
    IF childpos < Len(heap)
    THEN LET rightpos == childpos + 1
             c == IF rightpos < Len(heap) /\ ~Less(heap[childpos + 1], heap[rightpos + 1])
                  THEN rightpos ELSE childpos
         IN  SiftupLoop([heap EXCEPT ![pos + 1] = heap[c + 1]], c, 2 * c + 1)
    ELSE [heap |-> heap, pos |-> pos]

\* heapq._siftup
Siftup(heap, pos) ==
    LET newitem == heap[pos + 1]
        r == SiftupLoop(heap, pos, 2 * pos + 1)
    IN  SiftdownLoop(r.heap, pos, r.pos, newitem)

\* heapq.heappush(heap, item)
Heappush(heap, item) == Siftdown(Append(heap, item), 0, Len(heap))

\* heapq.heappop(heap): the list it leaves (the popped entry is not used).
Heappop(heap) ==
    LET lastelt == heap[Len(heap)]
        rest == SubSeq(heap, 1, Len(heap) - 1)
    IN  IF rest # <<>> THEN Siftup([rest EXCEPT ![1] = lastelt], 0) ELSE rest

\* heapq.heapreplace(heap, item): the list it leaves.
Heapreplace(heap, item) == Siftup([heap EXCEPT ![1] = item], 0)

(***************************************************************************)
(* MergedPaginator.                                                        *)
(***************************************************************************)
\* The sort keys of the model: no key (compare the values), and two key
\* functions, one that reverses the order and one that makes values tie.
Keys == {"None", "neg", "half"}
ApplyKey(key, value) == IF key = "neg" THEN 0 - value ELSE value \div 2

\* random.getrandbits(16): the draws the model tells apart.
RandBits == 16
RandomOrders == {0, 2 ^ RandBits - 1}

\* MergedPaginator.__init__: iterator i iterates over source i.
NewMerged(sources, key, limit) ==
    [iterators |-> [i \in 1..Len(sources) |-> i], heap |-> <<>>, limit |-> limit,
     key |-> key, prepared |-> FALSE, counter |-> 0]

\* MergedPaginator._complete: free the heap and the iterators, raise.
MCompleteKeepsHeap(m) == m

MComplete(m) == [m EXCEPT !.heap = <<>>, !.iterators = <<>>]

\* MergedPaginator._create_heap_item; order is None (Null) or an int, rnd is
\* what random.getrandbits would return.
CreateHeapItemFalsyOrder(key, value, it, order, rnd) ==
    [sort_value |-> IF key # "None" THEN ApplyKey(key, value) ELSE value,
     order |-> IF order = Null \/ order[1] = 0 THEN rnd ELSE order[1],
     value |-> value, it |-> it]

CreateHeapItemIgnoresKey(key, value, it, order, rnd) ==
    [sort_value |-> value, order |-> IF order = Null THEN rnd ELSE order[1],
     value |-> value, it |-> it]

CreateHeapItem(key, value, it, order, rnd) ==
    [sort_value |-> IF key # "None" THEN ApplyKey(key, value) ELSE value,
     order |-> IF order = Null THEN rnd ELSE order[1],
     value |-> value, it |-> it]

\* it.__anext__() over every iterator (the gather of _prepare): each
\* iterator's first value, or Null for StopAsyncIteration.
FirstValues(st, its) == [i \in 1..Len(its) |-> IF st[its[i]] = <<>> THEN Null ELSE Some(Head(st[its[i]]))]
\* The same calls as a record of what was asked of whom: <<iterator, "item">>
\* or <<iterator, "stop">>, in the order the coroutines were created.
FirstPulls(st, its) == [i \in 1..Len(its) |-> <<its[i], IF st[its[i]] = <<>> THEN "stop" ELSE "item">>]

AfterFirstValues(st, its) ==
    [j \in 1..Len(st) |-> IF (\E i \in 1..Len(its) : its[i] = j) /\ st[j] # <<>>
                          THEN Tail(st[j]) ELSE st[j]]

\* The loop of _prepare over enumerate(zip(iterators, first_values)),
\* from index i on; order is i - 1.
RECURSIVE PrepareLoopBreaks(_, _, _, _, _, _)
PrepareLoopBreaks(key, heap, its, first_values, i, rnd) ==
    IF i > Len(its) THEN heap
    ELSE IF first_values[i] = Null THEN heap
    ELSE PrepareLoopBreaks(key,
                           Heappush(heap, CreateHeapItem(key, first_values[i][1], its[i], Some(i - 1), rnd)),
                           its, first_values, i + 1, rnd)

RECURSIVE PrepareLoop(_, _, _, _, _, _)
PrepareLoop(key, heap, its, first_values, i, rnd) ==
    IF i > Len(its) THEN heap
    ELSE IF first_values[i] = Null
    THEN PrepareLoop(key, heap, its, first_values, i + 1, rnd)
    ELSE PrepareLoop(key,
                     Heappush(heap, CreateHeapItem(key, first_values[i][1], its[i], Some(i - 1), rnd)),
                     its, first_values, i + 1, rnd)

\* MergedPaginator._prepare
Prepare(m, st, rnd) ==
    [m |-> [m EXCEPT !.heap = PrepareLoop(m.key, <<>>, m.iterators,
                                          FirstValues(st, m.iterators), 1, rnd),
                     !.prepared = TRUE],
     st |-> AfterFirstValues(st, m.iterators),
     pulled |-> FirstPulls(st, m.iterators)]

\* The limit test of MergedPaginator.__anext__ (line 237).
MLimitReachedOffByOne(m) == Truthy(m.limit) /\ m.counter > m.limit[1]

MLimitReached(m) == Truthy(m.limit) /\ m.counter >= m.limit[1]

MStop(m, st, pulled) ==
    [m |-> MComplete(m), st |-> st, result |-> StopAsyncIteration, src |-> Null, pulled |-> pulled]

\* MergedPaginator.__anext__
MAnextPopsFirst(m, st, rnd) ==
    LET a == IF m.prepared THEN [m |-> m, st |-> st, pulled |-> <<>>] ELSE Prepare(m, st, rnd)
    IN  IF a.m.heap = <<>> THEN MStop(a.m, a.st, a.pulled)
        ELSE IF MLimitReached(a.m) THEN MStop(a.m, a.st, a.pulled)
        ELSE LET top == a.m.heap[1]
                 n == [a.m EXCEPT !.counter = @ + 1, !.heap = Heappop(@)]
             IN  IF a.st[top.it] = <<>>
                 THEN [m |-> n, st |-> a.st, result |-> Item(top.value), src |-> Some(top.it),
                       pulled |-> Append(a.pulled, <<top.it, "stop">>)]
                 ELSE [m |-> [n EXCEPT !.heap = Heappush(@,
                                  CreateHeapItem(n.key, Head(a.st[top.it]), top.it, Null, rnd))],
                       st |-> [a.st EXCEPT ![top.it] = Tail(@)],
                       result |-> Item(top.value), src |-> Some(top.it),
                       pulled |-> Append(a.pulled, <<top.it, "item">>)]

MAnextReturnsNew(m, st, rnd) ==
    LET a == IF m.prepared THEN [m |-> m, st |-> st, pulled |-> <<>>] ELSE Prepare(m, st, rnd)
    IN  IF a.m.heap = <<>> THEN MStop(a.m, a.st, a.pulled)
        ELSE IF MLimitReached(a.m) THEN MStop(a.m, a.st, a.pulled)
        ELSE LET n == [a.m EXCEPT !.counter = @ + 1]
                 top == n.heap[1]
             IN  IF a.st[top.it] = <<>>
                 THEN [m |-> [n EXCEPT !.heap = Heappop(@)], st |-> a.st,
                       result |-> Item(top.value), src |-> Some(top.it),
                       pulled |-> Append(a.pulled, <<top.it, "stop">>)]
                 ELSE [m |-> [n EXCEPT !.heap = Heapreplace(@,
                                  CreateHeapItem(n.key, Head(a.st[top.it]), top.it,
                                                 Some(top.order), rnd))],
                       st |-> [a.st EXCEPT ![top.it] = Tail(@)],
                       result |-> Item(Head(a.st[top.it])), src |-> Some(top.it),
                       pulled |-> Append(a.pulled, <<top.it, "item">>)]

\* __anext__ that runs _prepare whatever _prepared says.
MAnextAlwaysPrepares(m, st, rnd) ==
    LET a == Prepare(m, st, rnd)
    IN  IF a.m.heap = <<>> THEN MStop(a.m, a.st, a.pulled)
        ELSE IF MLimitReached(a.m) THEN MStop(a.m, a.st, a.pulled)
        ELSE LET n == [a.m EXCEPT !.counter = @ + 1]
                 top == n.heap[1]
             IN  IF a.st[top.it] = <<>>
                 THEN [m |-> [n EXCEPT !.heap = Heappop(@)], st |-> a.st,
                       result |-> Item(top.value), src |-> Some(top.it),
                       pulled |-> Append(a.pulled, <<top.it, "stop">>)]
                 ELSE [m |-> [n EXCEPT !.heap = Heapreplace(@,
                                  CreateHeapItem(n.key, Head(a.st[top.it]), top.it,
                                                 Some(top.order), rnd))],
                       st |-> [a.st EXCEPT ![top.it] = Tail(@)],
                       result |-> Item(top.value), src |-> Some(top.it),
                       pulled |-> Append(a.pulled, <<top.it, "item">>)]

MAnext(m, st, rnd) ==
    LET a == IF m.prepared THEN [m |-> m, st |-> st, pulled |-> <<>>] ELSE Prepare(m, st, rnd)
    IN  IF a.m.heap = <<>> THEN MStop(a.m, a.st, a.pulled)
        ELSE IF MLimitReached(a.m) THEN MStop(a.m, a.st, a.pulled)
        ELSE LET n == [a.m EXCEPT !.counter = @ + 1]
                 top == n.heap[1]
             IN  IF a.st[top.it] = <<>>
                 THEN [m |-> [n EXCEPT !.heap = Heappop(@)], st |-> a.st,
                       result |-> Item(top.value), src |-> Some(top.it),
                       pulled |-> Append(a.pulled, <<top.it, "stop">>)]
                 ELSE [m |-> [n EXCEPT !.heap = Heapreplace(@,
                                  CreateHeapItem(n.key, Head(a.st[top.it]), top.it,
                                                 Some(top.order), rnd))],
                       st |-> [a.st EXCEPT ![top.it] = Tail(@)],
                       result |-> Item(top.value), src |-> Some(top.it),
                       pulled |-> Append(a.pulled, <<top.it, "item">>)]

\* An async for that lets the StopAsyncIteration of __anext__ through.
RECURSIVE DrainFromLeaksStop(_, _, _, _)
DrainFromLeaksStop(m, st, rnd, acc) ==
    LET r == MAnext(m, st, rnd)
    IN  IF r.result = StopAsyncIteration
        THEN [m |-> r.m, st |-> r.st, items |-> acc, raised |-> Some(r.result)]
        ELSE DrainFromLeaksStop(r.m, r.st, rnd, Append(acc, r.result.value[1]))

\* [item async for item in self]: __anext__ until StopAsyncIteration, which
\* ends the loop; raised is what the comprehension raises (nothing).
RECURSIVE DrainFrom(_, _, _, _)
DrainFrom(m, st, rnd, acc) ==
    LET r == MAnext(m, st, rnd)
    IN  IF r.result = StopAsyncIteration
        THEN [m |-> r.m, st |-> r.st, items |-> acc, raised |-> Null]
        ELSE DrainFrom(r.m, r.st, rnd, Append(acc, r.result.value[1]))

\* Paginator.flatten on a UniversalPaginator: [item async for item in self].
\* fails: the first endpoint call of the drain raises; the error leaves the
\* comprehension and the items collected so far are lost. called lists the
\* parameters of the endpoint calls made.
RECURSIVE PageDrainFrom(_, _, _, _)
PageDrainFrom(p, fails, acc, called) ==
    LET r == Anext(p, fails)
        c == IF r.called = Null THEN called ELSE Append(called, r.called[1])
    IN  IF r.result = StopAsyncIteration
        THEN [p |-> r.p, items |-> acc, raised |-> Null, called |-> c]
        ELSE IF r.result = FetchError
        THEN [p |-> r.p, items |-> <<>>, raised |-> Some(FetchError), called |-> c]
        ELSE PageDrainFrom(r.p, fails /\ r.called = Null, Append(acc, r.result.value[1]), c)

PageFlatten(p, fails) == PageDrainFrom(p, fails, <<>>, <<>>)

\* heapq.merge(*lists, key=key): the least head by (key, position of the
\* list) is produced next.
MergeKey(key, value) == IF key # "None" THEN ApplyKey(key, value) ELSE value
RECURSIVE HeapqMerge(_, _)
HeapqMerge(lists, key) ==
    LET live == {i \in 1..Len(lists) : lists[i] # <<>>}
    IN  IF live = {} THEN <<>>
        ELSE LET i == CHOOSE c \in live : \A d \in live :
                          \/ MergeKey(key, Head(lists[c])) < MergeKey(key, Head(lists[d]))
                          \/ MergeKey(key, Head(lists[c])) = MergeKey(key, Head(lists[d])) /\ c <= d
             IN  <<Head(lists[i])>> \o HeapqMerge([lists EXCEPT ![i] = Tail(@)], key)

\* s[:limit]
SliceTo(s, limit) == IF limit = Null THEN s ELSE Take(s, limit[1])

\* MergedPaginator.flatten(lazy=lazy)
Flatten(m, st, lazy, rnd) ==
    IF m.limit # Null /\ lazy THEN DrainFrom(m, st, rnd, <<>>)
    ELSE LET lists == [i \in 1..Len(m.iterators) |-> st[m.iterators[i]]]
         IN  [m |-> m,
              st |-> [j \in 1..Len(st) |-> IF \E i \in 1..Len(m.iterators) : m.iterators[i] = j
                                           THEN <<>> ELSE st[j]],
              items |-> SliceTo(HeapqMerge(lists, m.key), m.limit),
              raised |-> Null]

(***************************************************************************)
(* The service registry: ServiceClientMeta, load_services.                 *)
(***************************************************************************)
\* pkgutil.iter_modules over atuyka/services, in its (sorted) order.
ModuleNames == <<"base", "pixiv", "twitter">>

\* The class statements of the service modules, with their slug and auth
\* keywords; "" is slug not given. A type of a service module is named
\* <<class name, 0>>, a type declared elsewhere <<"User", n>>.
\* class Pixiv(base.ServiceClient, slug="pixiv", ..., auth=True)
PixivClasses == <<[cls |-> <<"Pixiv", 0>>, slug |-> "pixiv", auth |-> TRUE]>>
\* class Twitter(base.ServiceClient, service="twitter", url="twitter.com"):
\* the keyword is service, so __init__ receives no slug.
TwitterClasses == <<[cls |-> <<"Twitter", 0>>, slug |-> "", auth |-> FALSE]>>

\* The client types a module declares when it is first imported.
ModuleClasses(name) ==
    IF name = "pixiv" THEN PixivClasses
    ELSE IF name = "twitter" THEN TwitterClasses
    ELSE <<>>

\* ServiceClientMeta.__init__: a declared type, with its config when a slug
\* was given (if not slug: return).
DeclaredType(cls, slug, auth) ==
    [cls |-> cls, has_config |-> slug # "", slug |-> slug, requires_authorization |-> auth]

RECURSIVE DeclareAll(_, _)
DeclareAll(subs, decls) ==
    IF decls = <<>> THEN subs
    ELSE DeclareAll(Append(subs, DeclaredType(Head(decls).cls, Head(decls).slug, Head(decls).auth)),
                    Tail(decls))

\* ServiceClientMeta._is_available
IsAvailable(c) == c.has_config

\* load_services whose loop ends at the first module that fails to import.
RECURSIVE LoadLoopAborts(_, _, _, _, _, _)
LoadLoopAborts(subs, imp, mods, include, exclude, i) ==
    IF i > Len(ModuleNames) THEN [subclasses |-> subs, imported |-> imp, modules |-> mods]
    ELSE LET name == ModuleNames[i]
         IN  IF include # {} /\ name \notin include
             THEN LoadLoopAborts(subs, imp, mods, include, exclude, i + 1)
             ELSE IF exclude # {} /\ name \in exclude
             THEN LoadLoopAborts(subs, imp, mods, include, exclude, i + 1)
             ELSE IF name \in broken
             THEN [subclasses |-> subs, imported |-> imp, modules |-> mods]
             ELSE IF name \in imp
             THEN LoadLoopAborts(subs, imp, Append(mods, name), include, exclude, i + 1)
             ELSE LoadLoopAborts(DeclareAll(subs, ModuleClasses(name)), imp \cup {name},
                                 Append(mods, name), include, exclude, i + 1)

\* load_services(include, exclude) from module i of ModuleNames on; include
\* and exclude are sets of names (None and empty are both falsy). The state
\* is the registry's: subs, imp; mods is the list of modules returned.
RECURSIVE LoadLoop(_, _, _, _, _, _)
LoadLoop(subs, imp, mods, include, exclude, i) ==
    IF i > Len(ModuleNames) THEN [subclasses |-> subs, imported |-> imp, modules |-> mods]
    ELSE LET name == ModuleNames[i]
         IN  IF include # {} /\ name \notin include
             THEN LoadLoop(subs, imp, mods, include, exclude, i + 1)
             ELSE IF exclude # {} /\ name \in exclude
             THEN LoadLoop(subs, imp, mods, include, exclude, i + 1)
             ELSE IF name \in broken
             THEN LoadLoop(subs, imp, mods, include, exclude, i + 1)
             ELSE IF name \in imp
             THEN LoadLoop(subs, imp, Append(mods, name), include, exclude, i + 1)
             ELSE LoadLoop(DeclareAll(subs, ModuleClasses(name)), imp \cup {name},
                           Append(mods, name), include, exclude, i + 1)

\* load_services
LoadServices(subs, imp, include, exclude) == LoadLoop(subs, imp, <<>>, include, exclude, 1)

Available(subs, available) == SelectSeq(subs, LAMBDA c : IsAvailable(c) \/ ~available)

\* __get_subclasses__ that runs the discovery whatever it found.
GetSubclassesAlwaysLoads(subs, imp, load, available) ==
    IF load
    THEN LET l == LoadLoop(subs, imp, <<>>, {}, {}, 1)
         IN  [found |-> Available(l.subclasses, available),
              subclasses |-> l.subclasses, imported |-> l.imported, passes |-> 1]
    ELSE [found |-> Available(subs, available),
          subclasses |-> subs, imported |-> imp, passes |-> 0]

\* ServiceClientMeta.__get_subclasses__(load, available): the types found,
\* the registry it leaves and the number of discovery passes it ran.
GetSubclasses(subs, imp, load, available) ==
    IF Available(subs, available) = <<>> /\ load
    THEN LET l == LoadServices(subs, imp, {}, {})
         IN  [found |-> Available(l.subclasses, available),
              subclasses |-> l.subclasses, imported |-> l.imported, passes |-> 1]
    ELSE [found |-> Available(subs, available),
          subclasses |-> subs, imported |-> imp, passes |-> 0]

\* {c.config.slug: c for c in found}: a dict as its list of <<key, value>>
\* in insertion order; a later type of the same slug replaces the value.
RECURSIVE DictOf(_, _)
DictOf(found, acc) ==
    IF found = <<>> THEN acc
    ELSE LET c == Head(found)
             at == {i \in 1..Len(acc) : acc[i][1] = c.slug}
         IN  DictOf(Tail(found),
                    IF at = {} THEN Append(acc, <<c.slug, c>>)
                    ELSE [acc EXCEPT ![CHOOSE i \in at : TRUE] = <<c.slug, c>>])

DictKeys(d) == [i \in 1..Len(d) |-> d[i][1]]
DictGet(d, k) ==
    LET at == {i \in 1..Len(d) : d[i][1] = k}
    IN  IF at = {} THEN Null ELSE Some(d[CHOOSE i \in at : TRUE][2])

\* ServiceClientMeta.available_services: the dict, or RuntimeError.
AvailableServices(subs, imp) ==
    LET g == GetSubclasses(subs, imp, TRUE, TRUE)
        services == DictOf(g.found, <<>>)
    IN  [raised |-> services = <<>>, services |-> services,
         subclasses |-> g.subclasses, imported |-> g.imported, passes |-> g.passes]

\* ServiceClientMeta.create(service, token): the outcome, the registry it
\* leaves, the client constructed (if any), the discovery passes it ran.
CreateChecksTokenFirst(subs, imp, service, token) ==
    LET a == AvailableServices(subs, imp)
        client_cls == DictGet(a.services, service)
        base == [subclasses |-> a.subclasses, imported |-> a.imported, passes |-> a.passes,
                 service |-> service, available_services |-> <<>>, client |-> Null]
    IN  IF a.raised THEN [base EXCEPT !.passes = a.passes] @@ [kind |-> "RuntimeError"]
        ELSE IF token = Null THEN base @@ [kind |-> "MissingTokenError"]
        ELSE IF client_cls = Null
        THEN [base EXCEPT !.available_services = DictKeys(a.services)]
             @@ [kind |-> "InvalidServiceError"]
        ELSE [base EXCEPT !.client = Some(<<client_cls[1].cls, token>>)] @@ [kind |-> "client"]

\* create that constructs the client without looking at the token.
CreateSkipsTokenCheck(subs, imp, service, token) ==
    LET a == AvailableServices(subs, imp)
        client_cls == DictGet(a.services, service)
        base == [subclasses |-> a.subclasses, imported |-> a.imported, passes |-> a.passes,
                 service |-> service, available_services |-> <<>>, client |-> Null]
    IN  IF a.raised THEN base @@ [kind |-> "RuntimeError"]
        ELSE IF client_cls = Null
        THEN [base EXCEPT !.available_services = DictKeys(a.services)]
             @@ [kind |-> "InvalidServiceError"]
        ELSE [base EXCEPT !.client = Some(<<client_cls[1].cls, token>>)] @@ [kind |-> "client"]

Create(subs, imp, service, token) ==
    LET a == AvailableServices(subs, imp)
        client_cls == DictGet(a.services, service)
        base == [subclasses |-> a.subclasses, imported |-> a.imported, passes |-> a.passes,
                 service |-> service, available_services |-> <<>>, client |-> Null]
    IN  IF a.raised THEN base @@ [kind |-> "RuntimeError"]
        ELSE IF client_cls = Null
        THEN LET b == AvailableServices(a.subclasses, a.imported)
             IN  IF b.raised THEN [base EXCEPT !.passes = a.passes + b.passes]
                                  @@ [kind |-> "RuntimeError"]
                 ELSE [base EXCEPT !.available_services = DictKeys(b.services),
                                   !.subclasses = b.subclasses, !.imported = b.imported,
                                   !.passes = a.passes + b.passes]
                      @@ [kind |-> "InvalidServiceError"]
        ELSE IF client_cls[1].requires_authorization /\ token = Null
        THEN base @@ [kind |-> "MissingTokenError"]
        ELSE [base EXCEPT !.client = Some(<<client_cls[1].cls, token>>)] @@ [kind |-> "client"]

(***************************************************************************)
(* Endpoint metadata: ServiceMethodParameter, ServiceMethod.               *)
(* A str is modelled by its parts: a method name by the list of its parts  *)
(* ("get_" is one part, no other part holds a "g"), a docstring by the     *)
(* list of its lines.                                                      *)
(***************************************************************************)
\* name.replace("get_", "", 1): the first occurrence is removed, wherever.
RECURSIVE ReplaceFirst(_, _)
ReplaceFirst(name, part) ==
    IF name = <<>> THEN <<>>
    ELSE IF Head(name) = part THEN Tail(name)
    ELSE <<Head(name)>> \o ReplaceFirst(Tail(name), part)

\* The empty str: one empty line.
EmptyStr == <<"">>

\* ServiceMethodParameter(name, description=None, type="string")
ServiceMethodParameter(name, description, type) ==
    [name |-> name, description |-> description, type |-> type]

\* ServiceMethod.from_method(method); method.__doc__ is None (Null) or a str.
FromMethod(m) ==
    [name |-> ReplaceFirst(m.name, "get_"),
     description |-> IF m.doc = Null THEN EmptyStr ELSE m.doc[1],
     parameters |->
        LET kw == SelectSeq(m.parameters, LAMBDA q : q.kind = "KEYWORD_ONLY")
        IN  [i \in 1..Len(kw) |-> ServiceMethodParameter(kw[i].name, Null, kw[i].annotation)]]

\* ServiceMethodParameter.to_schema(required=required)
ParameterToSchema(param, required) ==
    [name |-> param.name, in |-> "query",
     description |-> IF param.description = Null THEN EmptyStr ELSE param.description[1],
     required |-> required, schema |-> [type |-> param.type]]

\* ServiceMethod.to_schema()
ToSchema(sm) ==
    [name |-> sm.name, description |-> sm.description,
     parameters |->
        <<ParameterToSchema(ServiceMethodParameter("service", Some(<<"Target service slug">>),
                                                   "string"), TRUE),
          ParameterToSchema(ServiceMethodParameter("token", Some(<<"Token for the chosen service">>),
                                                   "string"), FALSE)>>
        \o [i \in 1..Len(sm.parameters) |-> ParameterToSchema(sm.parameters[i], FALSE)]]

(***************************************************************************)
(* MergedPaginator._prepare, the gather taken apart: the first __anext__   *)
(* of every source is started, the calls complete one by one in any order  *)
(* and any of them may raise; the loop runs when all have completed.       *)
(***************************************************************************)
\* What a source raises when its call fails: told apart by the source.
SourceError(i) == [kind |-> "SourceError", value |-> <<i>>]

\* it.__anext__() of source i.
SourceAnext(st, i, fails) ==
    IF fails THEN [st |-> st, result |-> SourceError(i)]
    ELSE IF st[i] = <<>> THEN [st |-> st, result |-> StopAsyncIteration]
    ELSE [st |-> [st EXCEPT ![i] = Tail(@)], result |-> Item(Head(st[i]))]

\* A gather that hands the results over in the order they arrived.
GatherInCompletionOrder(results, completed) ==
    [k \in 1..Len(completed) |-> results[completed[k]]]

\* asyncio.gather(*coros, return_exceptions=True): the results in the order
\* of the coroutines, whatever the order they completed in.
Gather(results, completed) == [i \in 1..Len(completed) |-> results[i]]

\* The loop of _prepare that takes an error for an exhausted source.
RECURSIVE GatheredLoopSkipsErrors(_, _, _, _, _, _)
GatheredLoopSkipsErrors(key, heap, its, first_values, i, rnd) ==
    IF i > Len(its) THEN [heap |-> heap, raised |-> Null]
    ELSE IF first_values[i].kind # "item"
    THEN GatheredLoopSkipsErrors(key, heap, its, first_values, i + 1, rnd)
    ELSE GatheredLoopSkipsErrors(key,
             Heappush(heap, CreateHeapItem(key, first_values[i].value[1], its[i], Some(i - 1), rnd)),
             its, first_values, i + 1, rnd)

\* The loop of _prepare over enumerate(zip(iterators, first_values)) from
\* index i on, the values being items, StopAsyncIteration or another
\* exception, which it raises.
RECURSIVE GatheredLoop(_, _, _, _, _, _)
GatheredLoop(key, heap, its, first_values, i, rnd) ==
    IF i > Len(its) THEN [heap |-> heap, raised |-> Null]
    ELSE IF first_values[i].kind = "StopAsyncIteration"
    THEN GatheredLoop(key, heap, its, first_values, i + 1, rnd)
    ELSE IF first_values[i].kind # "item"
    THEN [heap |-> heap, raised |-> Some(first_values[i])]
    ELSE GatheredLoop(key,
             Heappush(heap, CreateHeapItem(key, first_values[i].value[1], its[i], Some(i - 1), rnd)),
             its, first_values, i + 1, rnd)

\* _prepare from the gather's return on: _prepared is set when the loop
\* has run to its end.
PrepareGathered(m, first_values, rnd) ==
    LET l == GatheredLoop(m.key, <<>>, m.iterators, first_values, 1, rnd)
    IN  [m |-> [m EXCEPT !.heap = l.heap, !.prepared = (l.raised = Null)],
         raised |-> l.raised]

(***************************************************************************)
(* atuyka.errors and the exception handler of the API (api/routes.py).     *)
(* A str is a sequence of pieces ("/", "me", "users", ...), so that        *)
(* str.replace is a replacement of a subsequence.                          *)
(***************************************************************************)
\* The base class of each error class (errors.py, routes.py).
Base(cls) ==
    CASE cls = "AtuykaError" -> "Exception"
      [] cls = "RateLimitedError" -> "AtuykaError"
      [] cls = "ServiceError" -> "AtuykaError"
      [] cls = "InvalidServiceError" -> "ServiceError"
      [] cls = "MissingEndpointError" -> "ServiceError"
      [] cls = "InvalidResourceError" -> "ServiceError"
      [] cls = "SuspendedResourceError" -> "InvalidResourceError"
      [] cls = "MissingUserIDError" -> "InvalidResourceError"
      [] cls = "InvalidIDError" -> "InvalidResourceError"
      [] cls = "AuthenticationError" -> "AtuykaError"
      [] cls = "MissingTokenError" -> "AuthenticationError"
      [] cls = "InvalidTokenError" -> "AuthenticationError"
      [] cls = "PrivateResourceError" -> "AuthenticationError"
      [] cls = "SpecialRequest" -> "AtuykaError"
      [] cls = "OptionsRequest" -> "SpecialRequest"
      [] OTHER -> "object"

ErrorClasses ==
    {"AtuykaError", "RateLimitedError", "ServiceError", "InvalidServiceError",
     "MissingEndpointError", "InvalidResourceError", "SuspendedResourceError",
     "MissingUserIDError", "InvalidIDError", "AuthenticationError", "MissingTokenError",
     "InvalidTokenError", "PrivateResourceError", "OptionsRequest"}

RECURSIVE IsSubclass(_, _)
IsSubclass(cls, base) ==
    IF cls = base THEN TRUE
    ELSE IF cls = "object" THEN FALSE
    ELSE IsSubclass(Base(cls), base)

\* The attributes the __init__ methods of a class and of its bases set.
RECURSIVE Attributes(_)
Attributes(cls) ==
    IF cls \in {"Exception", "object"} THEN {}
    ELSE Attributes(Base(cls)) \cup
         (CASE cls = "AtuykaError" -> {"service", "message"}
            [] cls = "RateLimitedError" -> {"reset"}
            [] cls = "InvalidServiceError" -> {"available_services"}
            [] cls = "MissingEndpointError" -> {"endpoint"}
            [] cls = "InvalidResourceError" -> {"resource"}
            [] cls = "MissingUserIDError" -> {"suggestion"}
            [] cls = "InvalidIDError" -> {"id"}
            [] cls = "InvalidTokenError" -> {"token"}
            [] cls = "PrivateResourceError" -> {"resource"}
            [] cls = "SpecialRequest" -> {"client"}
            [] OTHER -> {})

\* A class object, and an instance of a class; suggestion is the one
\* attribute whose value the handler looks at.
ClassObject(cls) == [kind |-> "class", cls |-> cls, suggestion |-> Null]
Instance(cls, suggestion) == [kind |-> "instance", cls |-> cls, suggestion |-> suggestion]

\* case Cls(attr=name): an instance of Cls that has the attribute.
ClassPattern(exc, cls, attr) ==
    exc.kind = "instance" /\ IsSubclass(exc.cls, cls) /\ attr \in Attributes(exc.cls)

\* case a.b.Cls: (a dotted name without parentheses): the subject equals
\* the value the name stands for, here the class object.
ValuePattern(exc, cls) == exc = ClassObject(cls)

\* s.startswith(prefix)
StartsWith(str, prefix) ==
    Len(str) >= Len(prefix) /\ \A i \in 1..Len(prefix) : str[i] = prefix[i]

\* str.replace(old, new, 1): the first occurrence of old becomes new.
RECURSIVE ReplaceOnce(_, _, _)
ReplaceOnce(str, old, new) ==
    IF str = <<>> THEN <<>>
    ELSE IF StartsWith(str, old) THEN new \o SubSeq(str, Len(old) + 1, Len(str))
    ELSE <<Head(str)>> \o ReplaceOnce(Tail(str), old, new)

\* type(exc).__name__.replace("Error", "")
ErrorType(cls) ==
    CASE cls = "OptionsRequest" -> "OptionsRequest"
      [] cls = "AtuykaError" -> "Atuyka"
      [] cls = "RateLimitedError" -> "RateLimited"
      [] cls = "ServiceError" -> "Service"
      [] cls = "InvalidServiceError" -> "InvalidService"
      [] cls = "MissingEndpointError" -> "MissingEndpoint"
      [] cls = "InvalidResourceError" -> "InvalidResource"
      [] cls = "SuspendedResourceError" -> "SuspendedResource"
      [] cls = "MissingUserIDError" -> "MissingUserID"
      [] cls = "InvalidIDError" -> "InvalidID"
      [] cls = "AuthenticationError" -> "Authentication"
      [] cls = "MissingTokenError" -> "MissingToken"
      [] cls = "InvalidTokenError" -> "InvalidToken"
      [] OTHER -> "PrivateResource"

JSONResponse(status_code, error_type, data) ==
    [kind |-> "json", status_code |-> status_code, error_type |-> error_type,
     data |-> data, location |-> <<>>]

\* starlette's RedirectResponse.
RedirectResponse(url) ==
    [kind |-> "redirect", status_code |-> 307, error_type |-> "", data |-> {}, location |-> url]

\* options(request, service=...): the schema of the endpoint.
OptionsResponse ==
    [kind |-> "options", status_code |-> 200, error_type |-> "", data |-> {}, location |-> <<>>]

\* What an endpoint that returns is answered with.
OkResponse == [kind |-> "ok", status_code |-> 200, error_type |-> "", data |-> {}, location |-> <<>>]

\* exception_handler: the arms of its match statement, in order.
ExceptionHandler(path, exc) ==
    LET error_type == ErrorType(exc.cls)
    IN  IF ClassPattern(exc, "InvalidServiceError", "available_services")
        THEN JSONResponse(404, error_type, {"available_services"})
        ELSE IF ClassPattern(exc, "MissingUserIDError", "suggestion") /\ exc.suggestion # Null
        THEN RedirectResponse(ReplaceOnce(path, <<"/", "me">>, <<"/">> \o exc.suggestion[1]))
        ELSE IF ValuePattern(exc, "MissingUserIDError") THEN JSONResponse(422, error_type, {})
        ELSE IF ClassPattern(exc, "InvalidIDError", "id") THEN JSONResponse(404, error_type, {"id"})
        ELSE IF ClassPattern(exc, "InvalidResourceError", "resource")
        THEN JSONResponse(404, error_type, {"resource"})
        ELSE IF ClassPattern(exc, "PrivateResourceError", "resource")
        THEN JSONResponse(403, error_type, {"resource"})
        ELSE IF ClassPattern(exc, "InvalidTokenError", "token")
        THEN JSONResponse(401, error_type, {"token"})
        ELSE IF ValuePattern(exc, "AuthenticationError") THEN JSONResponse(401, error_type, {})
        ELSE IF ValuePattern(exc, "ServiceError") THEN JSONResponse(400, error_type, {})
        ELSE IF ClassPattern(exc, "OptionsRequest", "client") THEN OptionsResponse
        ELSE JSONResponse(500, "Internal", {})

\* The {user} parameter of the routes /users/{user} and /users/{user}/...:
\* what stands between "/users/" and the next "/".
RECURSIVE UpToSlash(_)
UpToSlash(str) ==
    IF str = <<>> \/ Head(str) = "/" THEN <<>> ELSE <<Head(str)>> \o UpToSlash(Tail(str))

UserOf(path) == UpToSlash(SubSeq(path, 4, Len(path)))

\* dependency_user_id: the user, or the MissingUserIDError it raises.
DependencyUserId(my_user_id, user) ==
    IF user # <<>> /\ user # <<"me">> /\ user # <<"0">>
    THEN [user |-> Some(user), raised |-> Null]
    ELSE [user |-> Null, raised |-> Some(Instance("MissingUserIDError", my_user_id))]

(***************************************************************************)
(* utility.Cache. The dict is the sequence of its entries in insertion     *)
(* order; times are whole seconds.                                         *)
(***************************************************************************)
CacheKeysOf(cache) == [i \in 1..Len(cache) |-> cache[i].key]
CacheHas(cache, key) == \E i \in 1..Len(cache) : cache[i].key = key
CacheEntry(cache, key) == cache[CHOOSE i \in 1..Len(cache) : cache[i].key = key]
CacheDel(cache, key) == SelectSeq(cache, LAMBDA e : e.key # key)

\* A _clear_cache that drops the newest entries on overflow.
ClearCacheDropsNewest(cache, maxsize, now) ==
    LET kept == SelectSeq(cache, LAMBDA e : ~(e.expiry < now))
        overflow == Len(kept) - maxsize
    IN  IF Len(kept) > maxsize
        THEN [cache |-> SubSeq(kept, 1, maxsize),
              evicted |-> CacheKeysOf(SubSeq(kept, maxsize + 1, Len(kept))), now |-> now]
        ELSE [cache |-> kept, evicted |-> <<>>, now |-> now]

\* Cache._clear_cache: the entries with expiry < now go, then the first
\* len - maxsize of the rest; evicted are the keys of the latter.
ClearCache(cache, maxsize, now) ==
    LET kept == SelectSeq(cache, LAMBDA e : ~(e.expiry < now))
        overflow == Len(kept) - maxsize
    IN  IF Len(kept) > maxsize
        THEN [cache |-> SubSeq(kept, overflow + 1, Len(kept)),
              evicted |-> CacheKeysOf(SubSeq(kept, 1, overflow)), now |-> now]
        ELSE [cache |-> kept, evicted |-> <<>>, now |-> now]

KeyError == [kind |-> "KeyError", value |-> NoValue]
Default == [kind |-> "default", value |-> NoValue]
Returned(v) == [kind |-> "value", value |-> <<v>>]
Nothing == [kind |-> "None", value |-> NoValue]

\* Cache.get; now is what time.time() returns to _clear_cache.
CacheGet(cache, maxsize, key, has_default, now) ==
    LET c == ClearCache(cache, maxsize, now)
    IN  IF ~CacheHas(c.cache, key)
        THEN [cache |-> c.cache, result |-> IF has_default THEN Default ELSE KeyError,
              returned |-> <<>>, evicted |-> c.evicted]
        ELSE [cache |-> c.cache, result |-> Returned(CacheEntry(c.cache, key).value),
              returned |-> <<CacheEntry(c.cache, key)>>, evicted |-> c.evicted]

\* A set that overwrites the entry of an existing key where it stands.
CacheSetKeepsPosition(cache, maxsize, default_ttl, key, value, ttl, stamp, now) ==
    LET entry == [key |-> key,
                  expiry |-> stamp + (IF Truthy(ttl) THEN ttl[1] ELSE default_ttl),
                  value |-> value]
        stored == IF CacheHas(cache, key)
                  THEN [i \in 1..Len(cache) |-> IF cache[i].key = key THEN entry ELSE cache[i]]
                  ELSE Append(cache, entry)
        c == ClearCache(stored, maxsize, now)
    IN  [cache |-> c.cache, result |-> Nothing, returned |-> <<>>, evicted |-> c.evicted]

\* Cache.set; stamp is what time.time() returns for the expiry, now what
\* it returns to _clear_cache afterwards.
CacheSet(cache, maxsize, default_ttl, key, value, ttl, stamp, now) ==
    LET entry == [key |-> key,
                  expiry |-> stamp + (IF Truthy(ttl) THEN ttl[1] ELSE default_ttl),
                  value |-> value]
        c == ClearCache(Append(CacheDel(cache, key), entry), maxsize, now)
    IN  [cache |-> c.cache, result |-> Nothing, returned |-> <<>>, evicted |-> c.evicted]

\* Cache.pop
CachePop(cache, maxsize, key, has_default, now) ==
    LET c == ClearCache(cache, maxsize, now)
    IN  IF ~CacheHas(c.cache, key)
        THEN [cache |-> c.cache, result |-> IF has_default THEN Default ELSE KeyError,
              returned |-> <<>>, evicted |-> c.evicted]
        ELSE [cache |-> CacheDel(c.cache, key),
              result |-> Returned(CacheEntry(c.cache, key).value),
              returned |-> <<CacheEntry(c.cache, key)>>, evicted |-> c.evicted]

\* Cache.bump: set(key, get(key), ttl=ttl), then _clear_cache; the
\* KeyError of get ends it.
CacheBump(cache, maxsize, default_ttl, key, ttl, stamp, now) ==
    LET g == CacheGet(cache, maxsize, key, FALSE, stamp)
        st == CacheSet(g.cache, maxsize, default_ttl, key, g.result.value[1], ttl, stamp, now)
        c == ClearCache(st.cache, maxsize, now)
    IN  IF g.result = KeyError THEN g
        ELSE [cache |-> c.cache, result |-> Nothing, returned |-> <<>>,
              evicted |-> g.evicted \o st.evicted \o c.evicted]

\* Mapping.__contains__: self[key] is tried, a KeyError means False.
CacheContains(cache, maxsize, key, now) ==
    LET g == CacheGet(cache, maxsize, key, FALSE, now)
    IN  [g EXCEPT !.result = Returned(g.result # KeyError)]

\* Cache.__len__
CacheLen(cache, maxsize, now) ==
    LET c == ClearCache(cache, maxsize, now)
    IN  [cache |-> c.cache, result |-> Returned(Len(c.cache)), returned |-> <<>>,
         evicted |-> c.evicted]

\* Cache.__iter__, the iterator read to its end.
CacheIter(cache, maxsize, now) ==
    LET c == ClearCache(cache, maxsize, now)
    IN  [cache |-> c.cache, result |-> Returned(CacheKeysOf(c.cache)), returned |-> c.cache,
         evicted |-> c.evicted]

\* Cache.__delitem__
CacheDelitem(cache, key) ==
    IF CacheHas(cache, key)
    THEN [cache |-> CacheDel(cache, key), result |-> Nothing, returned |-> <<>>,
          evicted |-> <<>>]
    ELSE [cache |-> cache, result |-> KeyError, returned |-> <<>>, evicted |-> <<>>]

NoOperation == [op |-> "none", key |-> "", result |-> Nothing, returned |-> <<>>,
                evicted |-> <<>>, now |-> 0]

(***************************************************************************)
(* The variables of a specification that another one leaves alone.         *)
(***************************************************************************)
IdlePage ==
    /\ pages = <<>>
    /\ pager = NewPager(Null)
    /\ yielded = <<>>
    /\ calls = <<>>
    /\ last = NoPull
    /\ stopped = FALSE
    /\ late_pulls = 0
    /\ errors = 0
    /\ p_flattened = NotFlattenedPage

IdleMerge ==
    /\ iterables = <<>>
    /\ iters = <<>>
    /\ merged = NewMerged(<<>>, "None", Null)
    /\ out = <<>>
    /\ m_last = NoPull
    /\ m_stopped = FALSE
    /\ m_late = 0
    /\ m_pulls = <<>>
    /\ flattened = NotFlattened

IdleReg ==
    /\ subclasses = <<>>
    /\ imported = {}
    /\ broken = {}
    /\ clients = <<>>
    /\ r_last = NoCall
    /\ ncalls = 0

IdleMeta ==
    /\ method = NoMethod
    /\ metadata = Null
    /\ schema = Null

IdleApi ==
    /\ a_path = <<>>
    /\ a_my_user_id = Null
    /\ a_exc = Null
    /\ a_response = Null
    /\ a_hops = 0
    /\ a_seen = <<>>

IdleCache ==
    /\ c_cache = <<>>
    /\ c_maxsize = 0
    /\ c_ttl = 0
    /\ c_now = 0
    /\ c_last = NoOperation
    /\ c_recent = <<>>

IdleFan ==
    /\ f_iterables = <<>>
    /\ f_iters = <<>>
    /\ f_merged = NewMerged(<<>>, "None", Null)
    /\ f_pc = "idle"
    /\ f_pending = {}
    /\ f_results = <<>>
    /\ f_completed = <<>>
    /\ f_heap0 = Null
    /\ f_out = <<>>
    /\ f_last = NoPull
    /\ f_errors = 0

(***************************************************************************)
(* SpecPage: one UniversalPaginator, pulled item by item.                  *)
(***************************************************************************)
PageLists == ListsOfLists(Items, MaxPages, MaxItems) \ {<<>>}

InitPage ==
    /\ IdleCache
    /\ IdleApi
    /\ IdleFan
    /\ pages \in PageLists
    /\ \E limit \in Limits : pager = NewPager(limit)
    /\ yielded = <<>>
    /\ calls = <<>>
    /\ last = NoPull
    /\ stopped = FALSE
    /\ late_pulls = 0
    /\ errors = 0
    /\ p_flattened = NotFlattenedPage
    /\ iterables = <<>>
    /\ iters = <<>>
    /\ merged = NewMerged(<<>>, "None", Null)
    /\ out = <<>>
    /\ m_last = NoPull
    /\ m_stopped = FALSE
    /\ m_late = 0
    /\ m_pulls = <<>>
    /\ flattened = NotFlattened
    /\ subclasses = <<>>
    /\ imported = {}
    /\ broken = {}
    /\ clients = <<>>
    /\ r_last = NoCall
    /\ ncalls = 0
    /\ method = NoMethod
    /\ metadata = Null
    /\ schema = Null

\* One call of __anext__ on the paginator.
Pull ==
    /\ stopped => late_pulls < MaxLatePulls
    /\ \E fails \in BOOLEAN :
        /\ fails => errors < MaxFailures
        /\ LET r == Anext(pager, fails)
           IN  /\ fails => r.result = FetchError
               /\ pager' = r.p
               /\ last' = r.result
               /\ yielded' = IF r.result.kind = "item"
                             THEN Append(yielded, r.result.value[1]) ELSE yielded
               /\ calls' = IF r.called = Null THEN calls ELSE Append(calls, r.called[1])
               /\ stopped' = (stopped \/ r.result = StopAsyncIteration)
               /\ late_pulls' = IF stopped THEN late_pulls + 1 ELSE late_pulls
               /\ errors' = IF r.result = FetchError THEN errors + 1 ELSE errors
    /\ UNCHANGED <<pages, p_flattened, merge_vars, reg_vars, meta_vars, fan_vars, api_vars,
                   cache_vars>>

NextPageSpec == Pull

SpecPage == InitPage /\ [][NextPageSpec]_vars

(***************************************************************************)
(* SpecMerge: one MergedPaginator over finite sources, pulled item by item *)
(* and flattened at most once, at any point.                               *)
(***************************************************************************)
SourceLists == ListsOfLists(Items, MaxSources, MaxItems)

InitMerge ==
    /\ IdleCache
    /\ IdleApi
    /\ IdleFan
    /\ iterables \in SourceLists
    /\ iters = iterables
    /\ \E key \in Keys, limit \in Limits : merged = NewMerged(iterables, key, limit)
    /\ out = <<>>
    /\ m_last = NoPull
    /\ m_stopped = FALSE
    /\ m_late = 0
    /\ m_pulls = <<>>
    /\ flattened = NotFlattened
    /\ pages = <<>>
    /\ pager = NewPager(Null)
    /\ yielded = <<>>
    /\ calls = <<>>
    /\ last = NoPull
    /\ stopped = FALSE
    /\ late_pulls = 0
    /\ errors = 0
    /\ p_flattened = NotFlattenedPage
    /\ subclasses = <<>>
    /\ imported = {}
    /\ broken = {}
    /\ clients = <<>>
    /\ r_last = NoCall
    /\ ncalls = 0
    /\ method = NoMethod
    /\ metadata = Null
    /\ schema = Null

\* One call of __anext__ on the merged paginator.
MPull ==
    /\ m_stopped => m_late < MaxLatePulls
    /\ \E rnd \in RandomOrders :
        LET r == MAnext(merged, iters, rnd)
        IN  /\ merged' = r.m
            /\ iters' = r.st
            /\ m_last' = r.result
            /\ out' = IF r.result.kind = "item"
                      THEN Append(out, <<r.result.value[1], r.src[1]>>) ELSE out
            /\ m_stopped' = (m_stopped \/ r.result = StopAsyncIteration)
            /\ m_late' = IF m_stopped THEN m_late + 1 ELSE m_late
            /\ m_pulls' = Append(m_pulls, [pulled |-> r.pulled, result |-> r.result,
                                           src |-> r.src])
    /\ UNCHANGED <<iterables, flattened, page_vars, reg_vars, meta_vars, fan_vars, api_vars,
                   cache_vars>>

\* One call of flatten(lazy=lazy) (await paginator is flatten()).
MFlatten ==
    /\ ~flattened.done
    /\ \E lazy \in BOOLEAN, rnd \in RandomOrders :
        LET r == Flatten(merged, iters, lazy, rnd)
        IN  /\ merged' = r.m
            /\ iters' = r.st
            /\ flattened' = [done |-> TRUE, lazy |-> lazy, items |-> r.items,
                             pulls |-> merged.counter, fresh |-> m_last = NoPull,
                             raised |-> r.raised]
    /\ UNCHANGED <<iterables, out, m_last, m_stopped, m_late, m_pulls, page_vars, reg_vars,
                   meta_vars, fan_vars, api_vars, cache_vars>>

NextMerge == MPull \/ MFlatten

SpecMerge == InitMerge /\ [][NextMerge]_vars

(***************************************************************************)
(* SpecDrain: one paginator of either kind, pulled item by item and then   *)
(* flattened, at any point (await paginator is flatten()).                 *)
(***************************************************************************)
\* One call of flatten() on the UniversalPaginator.
PFlatten ==
    /\ ~p_flattened.done
    /\ \E fails \in BOOLEAN :
        /\ fails => errors < MaxFailures
        /\ LET r == PageFlatten(pager, fails)
           IN  /\ fails => r.raised = Some(FetchError)
               /\ pager' = r.p
               /\ calls' = calls \o r.called
               /\ errors' = IF r.raised = Some(FetchError) THEN errors + 1 ELSE errors
               /\ p_flattened' = [done |-> TRUE, items |-> r.items,
                                  pulls |-> Len(yielded), raised |-> r.raised]
    /\ UNCHANGED <<pages, yielded, last, stopped, late_pulls, merge_vars, reg_vars, meta_vars,
                   fan_vars, api_vars, cache_vars>>

\* The behaviour is about a UniversalPaginator (its endpoint serves pages)
\* or about a MergedPaginator.
InitDrain == InitPage \/ InitMerge

NextDrain ==
    \/ pages # <<>> /\ ~p_flattened.done /\ Pull
    \/ pages # <<>> /\ PFlatten
    \/ pages = <<>> /\ ~flattened.done /\ MPull
    \/ pages = <<>> /\ MFlatten

SpecDrain == InitDrain /\ [][NextDrain]_vars

(***************************************************************************)
(* SpecReg: the registry of one process. Client types are declared (by     *)
(* importing a service module, or by a class statement elsewhere), services*)
(* are loaded, clients are created.                                        *)
(***************************************************************************)
Slugs == {"pixiv", "twitter", "other"}
Tokens == {Null, Some("token")}

\* The class statements made outside the services package: a new service, a
\* second type for pixiv's slug, a type that requires a token, a type
\* declared without slug.
UserDeclarations ==
    {[slug |-> "other", auth |-> FALSE], [slug |-> "pixiv", auth |-> FALSE],
     [slug |-> "other", auth |-> TRUE], [slug |-> "", auth |-> FALSE]}

\* The include and exclude filters load_services is called with.
Filters ==
    {[include |-> {}, exclude |-> {}], [include |-> {"pixiv"}, exclude |-> {}],
     [include |-> {}, exclude |-> {"pixiv"}], [include |-> {"pixiv", "twitter"}, exclude |-> {"pixiv"}]}

InitReg ==
    /\ IdleCache
    /\ IdleApi
    /\ IdleFan
    /\ subclasses = <<>>
    /\ imported = {"base"}
    /\ broken \in SUBSET {"pixiv", "twitter"}
    /\ clients = <<>>
    /\ r_last = NoCall
    /\ ncalls = 0
    /\ method = NoMethod
    /\ metadata = Null
    /\ schema = Null
    /\ pages = <<>>
    /\ pager = NewPager(Null)
    /\ yielded = <<>>
    /\ calls = <<>>
    /\ last = NoPull
    /\ stopped = FALSE
    /\ late_pulls = 0
    /\ errors = 0
    /\ p_flattened = NotFlattenedPage
    /\ iterables = <<>>
    /\ iters = <<>>
    /\ merged = NewMerged(<<>>, "None", Null)
    /\ out = <<>>
    /\ m_last = NoPull
    /\ m_stopped = FALSE
    /\ m_late = 0
    /\ m_pulls = <<>>
    /\ flattened = NotFlattened

Declared == Cardinality({i \in 1..Len(subclasses) : subclasses[i].cls[1] = "User"})

\* A class statement outside the services package:
\* class X(ServiceClient, slug=..., auth=...).
Declare ==
    /\ Declared < MaxDeclared
    /\ \E d \in UserDeclarations :
        subclasses' = Append(subclasses, DeclaredType(<<"User", Declared + 1>>, d.slug, d.auth))
    /\ r_last' = [op |-> "declare"]
    /\ UNCHANGED <<imported, broken, clients, ncalls, page_vars, merge_vars, meta_vars,
                   fan_vars, api_vars, cache_vars>>

\* A call of load_services(include, exclude).
Load ==
    /\ ncalls < MaxCalls
    /\ \E f \in Filters :
        LET l == LoadServices(subclasses, imported, f.include, f.exclude)
        IN  /\ subclasses' = l.subclasses
            /\ imported' = l.imported
            /\ r_last' = [op |-> "load_services", include |-> f.include,
                          exclude |-> f.exclude, modules |-> l.modules]
    /\ ncalls' = ncalls + 1
    /\ UNCHANGED <<broken, clients, page_vars, merge_vars, meta_vars, fan_vars, api_vars,
                   cache_vars>>

\* A call of ServiceClient.create(service, token).
CreateClient ==
    /\ ncalls < MaxCalls
    /\ \E service \in Slugs, token \in Tokens :
        LET r == Create(subclasses, imported, service, token)
        IN  /\ subclasses' = r.subclasses
            /\ imported' = r.imported
            /\ clients' = IF r.client = Null THEN clients ELSE Append(clients, r.client[1])
            /\ r_last' = [op |-> "create", kind |-> r.kind, service |-> service, token |-> token,
                          available_services |-> r.available_services, passes |-> r.passes]
    /\ ncalls' = ncalls + 1
    /\ UNCHANGED <<broken, page_vars, merge_vars, meta_vars, fan_vars, api_vars, cache_vars>>

\* A read of ServiceClient.available_services.
Lookup ==
    /\ ncalls < MaxCalls
    /\ LET a == AvailableServices(subclasses, imported)
       IN  /\ subclasses' = a.subclasses
           /\ imported' = a.imported
           /\ r_last' = [op |-> "available_services", raised |-> a.raised,
                         services |-> [i \in 1..Len(a.services) |->
                                           <<a.services[i][1], a.services[i][2].cls>>],
                         passes |-> a.passes]
    /\ ncalls' = ncalls + 1
    /\ UNCHANGED <<broken, clients, page_vars, merge_vars, meta_vars, fan_vars, api_vars,
                   cache_vars>>

NextReg == Declare \/ Load \/ CreateClient \/ Lookup

SpecReg == InitReg /\ [][NextReg]_vars

(***************************************************************************)
(* SpecMeta: one method, given to ServiceMethod.from_method; the result    *)
(* rendered by to_schema.                                                  *)
(***************************************************************************)
NameParts == {"get_", "posts"}
DocLines == {"Get liked posts.", "Args:"}
ParamNames == {"user", "offset", "limit"}
Annotations == {"int", "str"}
ParamKinds == {"POSITIONAL_OR_KEYWORD", "KEYWORD_ONLY"}

SeqsUpTo(S, lo, hi) == UNION {[1..n -> S] : n \in lo..hi}

\* The parameter lists a def statement can have: distinct names, no
\* positional parameter after a keyword-only one.
Parameters ==
    {ps \in SeqsUpTo([name : ParamNames, kind : ParamKinds, annotation : Annotations,
                      has_default : BOOLEAN], 0, MaxParams) :
        /\ \A i, j \in 1..Len(ps) : i # j => ps[i].name # ps[j].name
        /\ \A i, j \in 1..Len(ps) :
              (i < j /\ ps[i].kind = "KEYWORD_ONLY") => ps[j].kind = "KEYWORD_ONLY"}

Methods ==
    [name : SeqsUpTo(NameParts, 1, MaxNameParts),
     doc : {Null} \cup {Some(d) : d \in SeqsUpTo(DocLines, 1, MaxDocLines)},
     parameters : Parameters]

InitMeta ==
    /\ IdleCache
    /\ IdleApi
    /\ IdleFan
    /\ method \in Methods
    /\ metadata = Null
    /\ schema = Null
    /\ pages = <<>>
    /\ pager = NewPager(Null)
    /\ yielded = <<>>
    /\ calls = <<>>
    /\ last = NoPull
    /\ stopped = FALSE
    /\ late_pulls = 0
    /\ errors = 0
    /\ p_flattened = NotFlattenedPage
    /\ iterables = <<>>
    /\ iters = <<>>
    /\ merged = NewMerged(<<>>, "None", Null)
    /\ out = <<>>
    /\ m_last = NoPull
    /\ m_stopped = FALSE
    /\ m_late = 0
    /\ m_pulls = <<>>
    /\ flattened = NotFlattened
    /\ subclasses = <<>>
    /\ imported = {}
    /\ broken = {}
    /\ clients = <<>>
    /\ r_last = NoCall
    /\ ncalls = 0

\* ServiceMethod.from_method(method)
FromMethodCall ==
    /\ metadata = Null
    /\ metadata' = Some(FromMethod(method))
    /\ UNCHANGED <<method, schema, page_vars, merge_vars, reg_vars, fan_vars, api_vars, cache_vars>>

\* metadata.to_schema()
ToSchemaCall ==
    /\ metadata # Null
    /\ schema = Null
    /\ schema' = Some(ToSchema(metadata[1]))
    /\ UNCHANGED <<method, metadata, page_vars, merge_vars, reg_vars, fan_vars, api_vars,
                   cache_vars>>

NextMeta == FromMethodCall \/ ToSchemaCall

SpecMeta == InitMeta /\ [][NextMeta]_vars

(***************************************************************************)
(* SpecFan: one MergedPaginator pulled item by item, the gather of its     *)
(* first pull followed call by call; no pull is made after one that raised.*)
(***************************************************************************)
FanSourceLists == ListsOfLists(Items, MaxFanSources, MaxFanItems)
FanLimits == {Null, Some(1)}
FanKeys == {"None", "neg"}

InitFan ==
    /\ IdleCache
    /\ IdleApi
    /\ f_iterables \in FanSourceLists
    /\ f_iters = f_iterables
    /\ \E key \in FanKeys, limit \in FanLimits : f_merged = NewMerged(f_iterables, key, limit)
    /\ f_pc = "idle"
    /\ f_pending = {}
    /\ f_results = <<>>
    /\ f_completed = <<>>
    /\ f_heap0 = Null
    /\ f_out = <<>>
    /\ f_last = NoPull
    /\ f_errors = 0
    /\ IdlePage /\ IdleMerge /\ IdleReg /\ IdleMeta

\* The first call of __anext__: the paginator is not prepared, _prepare
\* creates one it.__anext__() per iterator and awaits their gather.
FanStart ==
    /\ f_pc = "idle"
    /\ ~f_merged.prepared
    /\ f_last = NoPull
    /\ f_pc' = "gather"
    /\ f_pending' = {i \in 1..Len(f_merged.iterators) : TRUE}
    /\ f_results' = [i \in 1..Len(f_merged.iterators) |-> NoPull]
    /\ f_completed' = <<>>
    /\ UNCHANGED <<f_iterables, f_iters, f_merged, f_heap0, f_out, f_last, f_errors,
                   page_vars, merge_vars, reg_vars, meta_vars, api_vars, cache_vars>>

\* The first call of one source completes, with an item, with
\* StopAsyncIteration or with an error.
FanComplete ==
    /\ f_pc = "gather"
    /\ \E i \in f_pending, fails \in BOOLEAN :
        /\ fails => f_errors < MaxFanFailures
        /\ LET r == SourceAnext(f_iters, f_merged.iterators[i], fails)
           IN  /\ f_iters' = r.st
               /\ f_results' = [f_results EXCEPT ![i] = r.result]
        /\ f_pending' = f_pending \ {i}
        /\ f_completed' = Append(f_completed, i)
        /\ f_errors' = IF fails THEN f_errors + 1 ELSE f_errors
    /\ UNCHANGED <<f_iterables, f_merged, f_pc, f_heap0, f_out, f_last,
                   page_vars, merge_vars, reg_vars, meta_vars, api_vars, cache_vars>>

\* Every call has completed: the gather returns, the loop of _prepare runs
\* and either raises, which ends the pull, or the pull goes on as any other.
FanGathered ==
    /\ f_pc = "gather"
    /\ f_pending = {}
    /\ \E rnd \in RandomOrders :
        LET g == PrepareGathered(f_merged, Gather(f_results, f_completed), rnd)
            r == MAnext(g.m, f_iters, rnd)
        IN  IF g.raised # Null
            THEN /\ f_merged' = g.m
                 /\ f_last' = g.raised[1]
                 /\ UNCHANGED <<f_iters, f_heap0, f_out>>
            ELSE /\ f_heap0' = Some(g.m.heap)
                 /\ f_merged' = r.m
                 /\ f_iters' = r.st
                 /\ f_last' = r.result
                 /\ f_out' = IF r.result.kind = "item"
                             THEN Append(f_out, r.result.value[1]) ELSE f_out
    /\ f_pc' = "idle"
    /\ UNCHANGED <<f_iterables, f_pending, f_results, f_completed, f_errors,
                   page_vars, merge_vars, reg_vars, meta_vars, api_vars, cache_vars>>

\* __anext__ on a prepared paginator, up to the first StopAsyncIteration.
FanPull ==
    /\ f_pc = "idle"
    /\ f_merged.prepared
    /\ f_last # StopAsyncIteration
    /\ \E rnd \in RandomOrders :
        LET r == MAnext(f_merged, f_iters, rnd)
        IN  /\ f_merged' = r.m
            /\ f_iters' = r.st
            /\ f_last' = r.result
            /\ f_out' = IF r.result.kind = "item"
                        THEN Append(f_out, r.result.value[1]) ELSE f_out
    /\ UNCHANGED <<f_iterables, f_pc, f_pending, f_results, f_completed, f_heap0, f_errors,
                   page_vars, merge_vars, reg_vars, meta_vars, api_vars, cache_vars>>

NextFan == FanStart \/ FanComplete \/ FanGathered \/ FanPull

SpecFan == InitFan /\ [][NextFan]_vars

(***************************************************************************)
(* SpecApi: a GET request to one of the user routes is served; its         *)
(* dependency or its endpoint may raise, the handler answers, and the      *)
(* caller follows a redirect by requesting the new path.                   *)
(***************************************************************************)
UserSegments == {<<"me">>, <<"0">>, <<"123">>, <<"me", "lon">>}
RouteSuffixes == {<<>>, <<"/", "likes">>, <<"/", "posts">>, <<"/", "posts", "/", "me">>}
Paths == {<<"/", "users", "/">> \o user \o rest : user \in UserSegments, rest \in RouteSuffixes}
MyUserIds == {Null, Some(<<"123">>), Some(<<"me", "lon">>)}

\* What a client's method raises to the endpoint.
Raised == {Instance(cls, Null) : cls \in ErrorClasses \ {"MissingUserIDError", "OptionsRequest"}}

InitApi ==
    /\ a_path \in Paths
    /\ a_my_user_id \in MyUserIds
    /\ a_exc = Null
    /\ a_response = Null
    /\ a_hops = 0
    /\ a_seen = <<>>
    /\ IdlePage /\ IdleMerge /\ IdleReg /\ IdleMeta
    /\ IdleFan
    /\ IdleCache

\* dependency_user_id rejects the user of the path: the handler answers.
RejectUser ==
    /\ a_response = Null
    /\ LET d == DependencyUserId(a_my_user_id, UserOf(a_path))
       IN  /\ d.raised # Null
           /\ a_exc' = d.raised
           /\ a_response' = Some(ExceptionHandler(a_path, d.raised[1]))
    /\ a_seen' = Append(a_seen, a_path)
    /\ UNCHANGED <<a_path, a_my_user_id, a_hops, page_vars, merge_vars, reg_vars, meta_vars,
                   fan_vars, cache_vars>>

\* The user is accepted and the endpoint returns.
Serve ==
    /\ a_response = Null
    /\ DependencyUserId(a_my_user_id, UserOf(a_path)).raised = Null
    /\ a_exc' = Null
    /\ a_response' = Some(OkResponse)
    /\ a_seen' = Append(a_seen, a_path)
    /\ UNCHANGED <<a_path, a_my_user_id, a_hops, page_vars, merge_vars, reg_vars, meta_vars,
                   fan_vars, cache_vars>>

\* The user is accepted and the client raises: the handler answers.
ServeError ==
    /\ a_response = Null
    /\ DependencyUserId(a_my_user_id, UserOf(a_path)).raised = Null
    /\ \E exc \in Raised :
        /\ a_exc' = Some(exc)
        /\ a_response' = Some(ExceptionHandler(a_path, exc))
    /\ a_seen' = Append(a_seen, a_path)
    /\ UNCHANGED <<a_path, a_my_user_id, a_hops, page_vars, merge_vars, reg_vars, meta_vars,
                   fan_vars, cache_vars>>

\* The caller follows the redirect.
Follow ==
    /\ a_response # Null
    /\ a_response[1].kind = "redirect"
    /\ a_hops < MaxHops
    /\ a_path' = a_response[1].location
    /\ a_response' = Null
    /\ a_exc' = Null
    /\ a_hops' = a_hops + 1
    /\ UNCHANGED <<a_my_user_id, a_seen, page_vars, merge_vars, reg_vars, meta_vars, fan_vars,
                   cache_vars>>

NextApi == RejectUser \/ Serve \/ ServeError \/ Follow

SpecApi == InitApi /\ [][NextApi]_vars

(***************************************************************************)
(* SpecCache: one Cache used through its methods while the clock advances, *)
(* between calls and between the two readings of the clock a set makes.    *)
(***************************************************************************)
CacheKeys == {"a", "b", "c"}
CacheValues == {0}
Ttls == {Null, Some(0), Some(MaxTtl)}
\* The clock now or a second later.
Later == {t \in {c_now, c_now + 1} : t <= MaxTime}

InitCache ==
    /\ c_cache = <<>>
    /\ c_maxsize \in 0..MaxSize
    /\ c_ttl = 1
    /\ c_now = 0
    /\ c_last = NoOperation
    /\ c_recent = <<>>
    /\ IdlePage /\ IdleMerge /\ IdleReg /\ IdleMeta
    /\ IdleFan /\ IdleApi

\* The record of a call: now is the clock's last reading in it.
Done(op, key, r, now) ==
    [op |-> op, key |-> key, result |-> r.result, returned |-> r.returned,
     evicted |-> r.evicted, now |-> now]

\* time.time() advances.
Tick ==
    /\ c_now < MaxTime
    /\ c_now' = c_now + 1
    /\ UNCHANGED <<c_cache, c_maxsize, c_ttl, c_last, c_recent, page_vars, merge_vars,
                   reg_vars, meta_vars, fan_vars, api_vars>>

\* cache.set(key, value, ttl=ttl); cache[key] = value is set(key, value).
SetCall ==
    \E key \in CacheKeys, value \in CacheValues, ttl \in Ttls, now \in Later :
        LET r == CacheSet(c_cache, c_maxsize, c_ttl, key, value, ttl, c_now, now)
        IN  /\ c_cache' = r.cache
            /\ c_last' = Done("set", key, r, now)
            /\ c_recent' = Append(SelectSeq(c_recent, LAMBDA k : k # key), key)
            /\ c_now' = now
            /\ UNCHANGED <<c_maxsize, c_ttl, page_vars, merge_vars, reg_vars, meta_vars,
                           fan_vars, api_vars>>

\* cache.get(key) or cache.get(key, default); cache[key] is get(key).
GetCall ==
    \E key \in CacheKeys, has_default \in BOOLEAN :
        LET r == CacheGet(c_cache, c_maxsize, key, has_default, c_now)
        IN  /\ c_cache' = r.cache
            /\ c_last' = Done("get", key, r, c_now)
            /\ UNCHANGED <<c_maxsize, c_ttl, c_now, c_recent, page_vars, merge_vars,
                           reg_vars, meta_vars, fan_vars, api_vars>>

\* cache.pop(key) or cache.pop(key, default)
PopCall ==
    \E key \in CacheKeys, has_default \in BOOLEAN :
        LET r == CachePop(c_cache, c_maxsize, key, has_default, c_now)
        IN  /\ c_cache' = r.cache
            /\ c_last' = Done("pop", key, r, c_now)
            /\ UNCHANGED <<c_maxsize, c_ttl, c_now, c_recent, page_vars, merge_vars,
                           reg_vars, meta_vars, fan_vars, api_vars>>

\* cache.bump(key, ttl=ttl)
BumpCall ==
    \E key \in CacheKeys, ttl \in Ttls, now \in Later :
        LET r == CacheBump(c_cache, c_maxsize, c_ttl, key, ttl, c_now, now)
        IN  /\ c_cache' = r.cache
            /\ c_last' = Done("bump", key, r, IF r.result = KeyError THEN c_now ELSE now)
            /\ c_recent' = IF r.result = KeyError THEN c_recent
                            ELSE Append(SelectSeq(c_recent, LAMBDA k : k # key), key)
            /\ c_now' = IF r.result = KeyError THEN c_now ELSE now
            /\ UNCHANGED <<c_maxsize, c_ttl, page_vars, merge_vars, reg_vars, meta_vars,
                           fan_vars, api_vars>>

\* key in cache
ContainsCall ==
    \E key \in CacheKeys :
        LET r == CacheContains(c_cache, c_maxsize, key, c_now)
        IN  /\ c_cache' = r.cache
            /\ c_last' = Done("contains", key, r, c_now)
            /\ UNCHANGED <<c_maxsize, c_ttl, c_now, c_recent, page_vars, merge_vars,
                           reg_vars, meta_vars, fan_vars, api_vars>>

\* len(cache)
LenCall ==
    LET r == CacheLen(c_cache, c_maxsize, c_now)
    IN  /\ c_cache' = r.cache
        /\ c_last' = Done("len", "", r, c_now)
        /\ UNCHANGED <<c_maxsize, c_ttl, c_now, c_recent, page_vars, merge_vars,
                       reg_vars, meta_vars, fan_vars, api_vars>>

\* list(cache)
IterCall ==
    LET r == CacheIter(c_cache, c_maxsize, c_now)
    IN  /\ c_cache' = r.cache
        /\ c_last' = Done("iter", "", r, c_now)
        /\ UNCHANGED <<c_maxsize, c_ttl, c_now, c_recent, page_vars, merge_vars,
                       reg_vars, meta_vars, fan_vars, api_vars>>

\* del cache[key]
DelitemCall ==
    \E key \in CacheKeys :
        LET r == CacheDelitem(c_cache, key)
        IN  /\ c_cache' = r.cache
            /\ c_last' = Done("delitem", key, r, c_now)
            /\ UNCHANGED <<c_maxsize, c_ttl, c_now, c_recent, page_vars, merge_vars,
                           reg_vars, meta_vars, fan_vars, api_vars>>

NextCache ==
    Tick \/ SetCall \/ GetCall \/ PopCall \/ BumpCall \/ ContainsCall \/ LenCall
    \/ IterCall \/ DelitemCall

SpecCache == InitCache /\ [][NextCache]_vars

(***************************************************************************)
(* Properties of the UniversalPaginator.                                   *)
(***************************************************************************)
IsPrefix(s, t) == Len(s) <= Len(t) /\ SubSeq(t, 1, Len(s)) = s

AllPagesNonEmpty == \A i \in 1..Len(pages) : pages[i] # <<>>

\* The items of the pages that precede the first empty page.
RECURSIVE UpToEmptyPage(_)
UpToEmptyPage(ps) ==
    IF ps = <<>> \/ Head(ps) = <<>> THEN <<>> ELSE Head(ps) \o UpToEmptyPage(Tail(ps))

\* C1: with no limit, over non-empty pages served without error, the items
\* returned so far are always a prefix of the concatenation of the pages;
\* exhaustion is signalled only once all of them were returned, and once all
\* of them were returned the next pull signals exhaustion.
C1_DrainYieldsConcatenation ==
    (pager.limit = Null /\ AllPagesNonEmpty /\ errors = 0) =>
        /\ IsPrefix(yielded, Concat(pages))
        /\ stopped => yielded = Concat(pages)
        /\ yielded = Concat(pages) => Anext(pager, FALSE).result = StopAsyncIteration
        /\ yielded # Concat(pages) => Anext(pager, FALSE).result.kind = "item"

C1_Witness ==
    /\ pager.limit = Null /\ AllPagesNonEmpty /\ errors = 0
    /\ Len(pages) = 2 /\ Len(Concat(pages)) = 3
    /\ yielded = Concat(pages) /\ last = StopAsyncIteration

\* C2: once a pull has signalled exhaustion, every later pull signals
\* exhaustion, returns no item, calls the endpoint no more and leaves the
\* paginator exhausted.
C2_ExhaustionIsFinal ==
    [][stopped => /\ last' = StopAsyncIteration
                  /\ yielded' = yielded
                  /\ calls' = calls
                  /\ Exhausted(pager')]_vars

C2_Witness ==
    /\ stopped /\ late_pulls = MaxLatePulls /\ last = StopAsyncIteration
    /\ Len(calls) < Len(pages)

\* C3 as stated: with limit n >= 1 the drain returns exactly the first
\* min(n, T) of the T items the pages hold, whatever the pages.
C3_AsStated ==
    (Truthy(pager.limit) /\ errors = 0) =>
        /\ Len(yielded) <= pager.limit[1]
        /\ stopped => yielded = Take(Concat(pages), pager.limit[1])

\* C3 amended: with limit n >= 1 the drain returns exactly the first
\* min(n, T) items, T counting the items of the pages before the first empty
\* page (all items when no page is empty), and never more than n items.
C3_LimitYieldsFirstN ==
    (Truthy(pager.limit) /\ errors = 0) =>
        /\ Len(yielded) <= pager.limit[1]
        /\ IsPrefix(yielded, UpToEmptyPage(pages))
        /\ stopped => yielded = Take(UpToEmptyPage(pages), pager.limit[1])
        /\ yielded = Take(UpToEmptyPage(pages), pager.limit[1])
              => Anext(pager, FALSE).result = StopAsyncIteration

C3_Witness ==
    /\ pager.limit = Some(2) /\ errors = 0 /\ AllPagesNonEmpty
    /\ Len(Concat(pages)) = 3 /\ Len(calls) < Len(pages)
    /\ stopped /\ Len(yielded) = 2

\* C16: when the endpoint raises during a pull, the error leaves the pull
\* and the paginator is exhausted afterwards: the next pull signals
\* exhaustion and does not call the endpoint again.
C16_FetchErrorExhausts ==
    (last = FetchError) =>
        /\ Exhausted(pager)
        /\ Anext(pager, FALSE).result = StopAsyncIteration
        /\ Anext(pager, FALSE).called = Null

\* A drain with no effective limit over non-empty pages, served without error.
CleanUnlimitedRun == ~Truthy(pager.limit) /\ AllPagesNonEmpty /\ errors = 0

\* C20: draining non-empty pages p1..pk with no limit calls the endpoint
\* exactly k times: the first call passes the first-call parameters, call i
\* passes the next of the page call i-1 returned, no call follows the page
\* whose next is None, and that page's items are all returned before
\* exhaustion; a pull makes at most one call, and only on an empty buffer.
C20_OneFetchPerPage ==
    /\ [](CleanUnlimitedRun =>
            /\ Len(calls) <= Len(pages)
            /\ calls # <<>> => calls[1] = FirstParams
            /\ \A i \in 2..Len(calls) : Some(calls[i]) = Endpoint(calls[i - 1]).next
            /\ \A i \in 1..Len(calls) : Endpoint(calls[i]).items = pages[i]
            /\ stopped => (Len(calls) = Len(pages) /\ yielded = Concat(pages))
            /\ yielded = Concat(pages) => Len(calls) = Len(pages))
    /\ [][CleanUnlimitedRun' =>
            /\ Len(calls') <= Len(calls) + 1
            /\ calls' # calls => (pager.buffer = Some(<<>>) /\ yielded' # yielded)]_vars

C20_Witness ==
    /\ CleanUnlimitedRun /\ Len(pages) = 2 /\ Len(pages[2]) = 2
    /\ calls = <<0, 1>> /\ yielded = Concat(pages) /\ stopped /\ late_pulls = 1

\* The step fetched a page, and the page has no items.
EmptyPageFetched ==
    /\ calls' # calls
    /\ last' # FetchError
    /\ Endpoint(calls'[Len(calls')]).items = <<>>

\* C24: the pull that fetches a page without items signals exhaustion and
\* leaves the paginator exhausted, whatever that page's next, and returns no
\* item; an exhausted paginator never calls the endpoint, so the page that
\* next pointed to is never fetched.
C24_EmptyPageExhausts ==
    /\ [][EmptyPageFetched => /\ last' = StopAsyncIteration
                              /\ Exhausted(pager')
                              /\ yielded' = yielded]_vars
    /\ [][Exhausted(pager) => calls' = calls]_vars

C24_Witness ==
    /\ pages = <<<<>>, <<0>>>> /\ calls = <<0>> /\ errors = 0
    /\ Exhausted(pager) /\ late_pulls = MaxLatePulls /\ yielded = <<>>

(***************************************************************************)
(* Properties of the MergedPaginator.                                      *)
(***************************************************************************)
OutValues == [i \in 1..Len(out) |-> out[i][1]]
OutKey(i) == MergeKey(merged.key, out[i][1])

\* The values out holds that came from iterator it, in the order of out.
RECURSIVE FromSource(_, _)
FromSource(o, it) ==
    IF o = <<>> THEN <<>>
    ELSE (IF Head(o)[2] = it THEN <<Head(o)[1]>> ELSE <<>>) \o FromSource(Tail(o), it)

Count(v, s) == Cardinality({i \in 1..Len(s) : s[i] = v})
SameItems(s, t) == \A v \in Items : Count(v, s) = Count(v, t)

NonDecreasing(key, s) ==
    \A i \in 1..(Len(s) - 1) : MergeKey(key, s[i]) <= MergeKey(key, s[i + 1])
SourcesSorted == \A i \in 1..Len(iterables) : NonDecreasing(merged.key, iterables[i])

\* Pulled item by item only: no flatten() call has consumed the sources.
OnlyPulled == ~flattened.done

\* C4 as stated: with no limit the items returned are non-decreasing by sort
\* key, whatever the order of the items inside each source.
C4_AsStated ==
    (merged.limit = Null /\ OnlyPulled) => NonDecreasing(merged.key, OutValues)

\* C4 amended: with no limit, when every source is itself non-decreasing by
\* the sort key, the items returned are non-decreasing by sort key.
C4_OutputNonDecreasing ==
    (merged.limit = Null /\ OnlyPulled /\ SourcesSorted) => NonDecreasing(merged.key, OutValues)

C4_Witness ==
    /\ merged.limit = Null /\ OnlyPulled /\ SourcesSorted /\ merged.key = "neg"
    /\ Len(iterables) = 2 /\ iterables[1] = <<1, 0>> /\ iterables[2] = <<1>>
    /\ m_stopped /\ Len(out) = 3

\* C5: over sources that are each non-decreasing by the sort key, with no
\* limit, the items returned up to exhaustion are all the sources' items,
\* sorted by key: the k-way merge of the sources.
C5_SortedMerge ==
    (merged.limit = Null /\ OnlyPulled /\ SourcesSorted /\ m_stopped) =>
        /\ NonDecreasing(merged.key, OutValues)
        /\ SameItems(OutValues, Concat(iterables))
        /\ Len(out) = Len(Concat(iterables))
        /\ OutValues = HeapqMerge(iterables, merged.key)

C5_Witness ==
    /\ merged.limit = Null /\ OnlyPulled /\ merged.key = "None" /\ m_stopped
    /\ iterables = <<<<0, 1>>, <<1>>>> /\ OutValues = <<0, 1, 1>>

\* C6: with no limit, whatever the order inside the sources, the items
\* returned from one source are always a prefix of that source, and at
\* exhaustion they are that source exactly, so that the output holds every
\* item of every source once and has the sum of the sources' lengths.
C6_NoLossNoDuplication ==
    (merged.limit = Null /\ OnlyPulled) =>
        /\ \A it \in 1..Len(iterables) : IsPrefix(FromSource(out, it), iterables[it])
        /\ \A i \in 1..Len(out) : out[i][2] \in 1..Len(iterables)
        /\ m_stopped =>
            /\ Len(out) = Len(Concat(iterables))
            /\ \A it \in 1..Len(iterables) : FromSource(out, it) = iterables[it]

C6_Witness ==
    /\ merged.limit = Null /\ OnlyPulled /\ m_stopped /\ ~SourcesSorted
    /\ Len(iterables) = 2 /\ Len(out) = 3 /\ out[1][2] = 2

\* The heap as the pull about to be made sees it: filled by _prepare first.
HeapAtPull == IF merged.prepared THEN merged.heap ELSE Prepare(merged, iters, 0).m.heap
HeapSet(heap) == {heap[i] : i \in 1..Len(heap)}

\* Every heap entry carries its source's index in the constructor's list.
OrdersAreSourceIndexes == \A e \in HeapSet(merged.heap) : e.order = e.it - 1

\* The item a pull returns is the head that is least by (sort key, index of
\* its source): among heads of equal key the earliest source goes first.
EarliestLeastHeadFirst ==
    (out' # out) =>
        LET v == out'[Len(out')][1]
            it == out'[Len(out')][2]
        IN  \A e \in HeapSet(HeapAtPull) :
                \/ MergeKey(merged.key, v) < e.sort_value
                \/ MergeKey(merged.key, v) = e.sort_value /\ it <= e.it

\* Over sorted sources, items of equal key leave in the order of their sources.
StableOutput ==
    (OnlyPulled /\ SourcesSorted) =>
        \A i, j \in 1..Len(out) : (i < j /\ OutKey(i) = OutKey(j)) => out[i][2] <= out[j][2]

\* C7: the merge is stable: every heap entry of a source carries that
\* source's index in the constructor's list as its order (never a random
\* one), a pull returns the least head by (key, source index), and over
\* sorted sources items of equal key leave in source order.
C7_StableMerge ==
    /\ [](OrdersAreSourceIndexes /\ StableOutput)
    /\ [][EarliestLeastHeadFirst]_vars

C7_Witness ==
    /\ OnlyPulled /\ merged.key = "half" /\ iterables = <<<<1>>, <<0, 1>>>>
    /\ out = <<<<1, 1>>, <<0, 2>>>> /\ Len(merged.heap) = 1 /\ merged.heap[1].order = 1

NonEmptySources == SelectSeq(iterables, LAMBDA s : s # <<>>)

\* C8: a source that is empty from the start is dropped without error: the
\* items returned up to exhaustion are those the merge of the other sources
\* alone returns, and over empty sources only the first pull exhausts.
C8_EmptySourcesDropped ==
    /\ m_last.kind \in {"none", "item", "StopAsyncIteration"}
    /\ (OnlyPulled /\ m_stopped) =>
          OutValues = DrainFrom(NewMerged(NonEmptySources, merged.key, merged.limit),
                                NonEmptySources, 0, <<>>).items
    /\ (OnlyPulled /\ NonEmptySources = <<>> /\ m_last # NoPull) =>
          (m_last = StopAsyncIteration /\ out = <<>>)

C8_Witness ==
    /\ OnlyPulled /\ m_stopped /\ merged.limit = Null
    /\ iterables = <<<<>>, <<0, 1>>>> /\ OutValues = <<0, 1>>

\* C9: on a fresh paginator, flatten() (eager or lazy) returns what pulling
\* item by item until exhaustion returns, whatever the limit.
C9_FlattenEqualsPulls ==
    (flattened.done /\ flattened.fresh) =>
        flattened.items = DrainFrom(NewMerged(iterables, merged.key, merged.limit),
                                    iterables, 0, <<>>).items

\* C19: with no limit, flatten() after k item-by-item pulls returns the
\* items not returned yet: the k pulled items followed by the flattened list
\* are the sequence that pulling alone returns.
C19_FlattenContinues ==
    (flattened.done /\ merged.limit = Null) =>
        Take(OutValues, flattened.pulls) \o flattened.items
            = DrainFrom(NewMerged(iterables, merged.key, Null), iterables, 0, <<>>).items

\* C17: flatten() never raises StopAsyncIteration: on a MergedPaginator,
\* eager or lazy, at any position and over any sources, it raises nothing
\* and returns a list; on a UniversalPaginator it returns a list, or raises
\* the endpoint's error when the endpoint raised.
C17_StopNeverEscapes ==
    /\ flattened.done =>
          /\ flattened.raised = Null
          /\ flattened.items \in Seq(Items)
    /\ p_flattened.done =>
          /\ p_flattened.raised # Some(StopAsyncIteration)
          /\ p_flattened.raised \in {Null, Some(FetchError)}
          /\ p_flattened.raised = Some(FetchError) => errors > 0
          /\ p_flattened.items \in Seq(Items)

C17_Witness ==
    /\ flattened.done /\ flattened.lazy /\ merged.limit = Some(2)
    /\ iterables = <<<<>>, <<0, 1>>>> /\ Len(out) = 1 /\ flattened.items = <<1>>
    /\ flattened.raised = Null

\* What the same merge returns, pulled to exhaustion, without a limit.
FullMerge == DrainFrom(NewMerged(iterables, merged.key, Null), iterables, 0, <<>>).items

\* C23: with limit n >= 1, pulled item by item, the counter is the number of
\* items returned and never exceeds n; the items returned are a prefix of
\* what the merge returns without a limit; a pull returns an item until the
\* first min(n, total) of them are out, and exhaustion from then on.
C23_MergedLimit ==
    (Truthy(merged.limit) /\ OnlyPulled) =>
        LET first == Take(FullMerge, merged.limit[1])
            next == MAnext(merged, iters, 0).result
        IN  /\ merged.counter = Len(out)
            /\ merged.counter <= merged.limit[1]
            /\ IsPrefix(OutValues, first)
            /\ m_stopped => OutValues = first
            /\ OutValues = first => next = StopAsyncIteration
            /\ OutValues # first => next.kind = "item"

C23_Witness ==
    /\ merged.limit = Some(2) /\ OnlyPulled /\ m_stopped /\ merged.key = "None"
    /\ iterables = <<<<0, 1>>, <<1>>>> /\ OutValues = <<0, 1>> /\ out[2][2] = 1
    /\ merged.counter = 2

\* C25: once a pull has signalled exhaustion, the heap and the iterator list
\* are empty for good, and every later pull signals exhaustion, returns no
\* item and takes nothing from any source.
C25_MergedExhaustionIsFinal ==
    /\ [](m_stopped => /\ merged.heap = <<>>
                       /\ merged.iterators = <<>>
                       /\ m_last = StopAsyncIteration)
    /\ [][m_stopped => /\ out' = out
                       /\ iters' = iters
                       /\ m_last' = StopAsyncIteration]_vars

C25_Witness ==
    /\ m_stopped /\ m_late = MaxLatePulls /\ merged.limit = Some(1) /\ OnlyPulled
    /\ Len(Concat(iterables)) = 3 /\ Len(out) = 1 /\ Len(Concat(iters)) = 1

\* Every it.__anext__() call made so far, in order.
RECURSIVE AllPulls(_)
AllPulls(hist) == IF hist = <<>> THEN <<>> ELSE hist[1].pulled \o AllPulls(Tail(hist))

\* The iterators a sequence of calls was made on, in order.
PulledFrom(pulled) == [k \in 1..Len(pulled) |-> pulled[k][1]]

\* The number of items iterator i has handed over in a sequence of calls.
ItemsPulled(all, i) == Cardinality({k \in 1..Len(all) : all[k] = <<i, "item">>})

SourceIds == [i \in 1..Len(iterables) |-> i]

\* The heap holds at most one entry per source, each source has handed over
\* at most one item more than was returned from it, and no source is asked
\* again after it has signalled exhaustion.
LookAheadBounded ==
    LET all == AllPulls(m_pulls)
    IN  /\ \A i \in 1..Len(iterables) :
              /\ Cardinality({j \in 1..Len(merged.heap) : merged.heap[j].it = i}) <= 1
              /\ ItemsPulled(all, i) = Len(iterables[i]) - Len(iters[i])
              /\ ItemsPulled(all, i) - Len(FromSource(out, i)) \in {0, 1}
        /\ Len(merged.heap) <= Len(iterables)
        /\ \A a, b \in 1..Len(all) : (a < b /\ all[a][2] = "stop") => all[b][1] # all[a][1]

\* C21 as stated: the first pull asks every source exactly once and no
\* other pull asks more than the source whose item it returns, once.
C21_OneItemPerSourceOnFirstPull ==
    OnlyPulled =>
        /\ m_pulls = <<>> => iters = iterables
        /\ \A k \in 1..Len(m_pulls) :
              PulledFrom(m_pulls[k].pulled) =
                  IF k = 1 THEN SourceIds
                  ELSE IF m_pulls[k].result.kind = "item" THEN <<m_pulls[k].src[1]>> ELSE <<>>
        /\ LookAheadBounded

\* C21: nothing is pulled before the first pull; the first pull asks every
\* source once, in index order, and then, if it returns an item, asks the
\* source of that item once more; a later pull that returns an item asks
\* that item's source once and no other, and a pull that signals exhaustion
\* after the first asks none; the look-ahead stays bounded throughout.
C21_BoundedLookAhead ==
    OnlyPulled =>
        /\ m_pulls = <<>> => iters = iterables
        /\ \A k \in 1..Len(m_pulls) :
              PulledFrom(m_pulls[k].pulled) =
                  (IF k = 1 THEN SourceIds ELSE <<>>)
                  \o (IF m_pulls[k].result.kind = "item" THEN <<m_pulls[k].src[1]>> ELSE <<>>)
        /\ LookAheadBounded

C21_Witness ==
    /\ OnlyPulled /\ iterables = <<<<0, 1>>, <<1>>>> /\ m_stopped
    /\ PulledFrom(m_pulls[1].pulled) = <<1, 2, 1>>
    /\ m_pulls[2].pulled = <<<<1, "stop">>>>
    /\ m_pulls[3].pulled = <<<<2, "stop">>>>
    /\ m_pulls[4].pulled = <<>>

FailedSources == {i \in 1..Len(f_results) : f_results[i].kind = "SourceError"}
Lowest(S) == CHOOSE i \in S : \A j \in S : i <= j

\* C22: when the first call of some source raised in the gather, the pull
\* raises the error of the lowest-indexed of the sources that failed,
\* whatever the other sources delivered; it returns no item and the
\* paginator is not marked prepared.
C22_FanOutFailure ==
    /\ (f_pc = "idle" /\ FailedSources # {}) =>
          /\ f_last = SourceError(Lowest(FailedSources))
          /\ ~f_merged.prepared
          /\ f_out = <<>>
          /\ f_heap0 = Null
    /\ (f_pc = "idle" /\ f_last.kind = "SourceError") => FailedSources # {}

C22_Witness ==
    /\ f_pc = "idle" /\ f_iterables = <<<<0>>, <<>>, <<1>>>>
    /\ Len(f_results) = 3 /\ f_results[1] = Item(0) /\ FailedSources = {2, 3}
    /\ f_completed = <<3, 2, 1>>
    /\ f_last = SourceError(2) /\ f_out = <<>> /\ ~f_merged.prepared

\* The same paginator prepared and pulled with nothing in between.
FanAtomic == NewMerged(f_iterables, f_merged.key, f_merged.limit)

\* C26: as long as no call raised, whatever the order in which the first
\* calls completed, no item is returned while a call is outstanding, the
\* heap _prepare leaves is the heap of a preparation with nothing in
\* between, and the items returned are those the same paginator returns
\* when every first call completes in index order.
C26_CompletionOrderIrrelevant ==
    f_errors = 0 =>
        /\ (f_pc = "gather" \/ f_heap0 = Null) => f_out = <<>> /\ ~f_merged.prepared
        /\ f_heap0 # Null => f_heap0[1] = Prepare(FanAtomic, f_iterables, 0).m.heap
        /\ LET atomic == DrainFrom(FanAtomic, f_iterables, 0, <<>>).items
           IN  /\ IsPrefix(f_out, atomic)
               /\ f_last = StopAsyncIteration => f_out = atomic

C26_Witness ==
    /\ f_errors = 0 /\ f_completed = <<3, 1, 2>> /\ f_iterables = <<<<1>>, <<0>>, <<>>>>
    /\ f_merged.key = "None" /\ f_out = <<0, 1>> /\ f_last = StopAsyncIteration

(***************************************************************************)
(* Properties of the API's exception handler.                              *)
(***************************************************************************)
\* The status the arm written for an error's class declares.
DeclaredStatus(exc) ==
    IF IsSubclass(exc.cls, "InvalidServiceError") THEN 404
    ELSE IF IsSubclass(exc.cls, "MissingUserIDError") THEN 422
    ELSE IF IsSubclass(exc.cls, "InvalidResourceError") THEN 404
    ELSE IF IsSubclass(exc.cls, "PrivateResourceError") THEN 403
    ELSE IF IsSubclass(exc.cls, "AuthenticationError") THEN 401
    ELSE IF IsSubclass(exc.cls, "ServiceError") THEN 400
    ELSE 500

\* C28: an error that is not answered by a redirect is answered with the
\* status its arm declares, an InvalidServiceError with the available
\* services, and with error_type 'Internal' exactly when that status is 500.
C28_DeclaredStatuses ==
    (a_exc # Null /\ a_response # Null /\ a_response[1].kind = "json") =>
        /\ a_response[1].status_code = DeclaredStatus(a_exc[1])
        /\ a_exc[1].cls = "InvalidServiceError" => "available_services" \in a_response[1].data
        /\ a_response[1].error_type = "Internal" <=> DeclaredStatus(a_exc[1]) = 500

\* C29: when the user of the path was rejected and the client has a user
\* ID, the answer is a redirect to a path whose user is that ID, which is
\* not the path requested and which dependency_user_id accepts.
C29_RedirectTerminates ==
    (a_exc # Null /\ a_response # Null /\ a_exc[1].cls = "MissingUserIDError"
     /\ a_exc[1].suggestion # Null) =>
        /\ a_response[1].kind = "redirect"
        /\ UserOf(a_response[1].location) = a_exc[1].suggestion[1]
        /\ a_response[1].location # a_path
        /\ DependencyUserId(a_my_user_id, UserOf(a_response[1].location)).raised = Null

(***************************************************************************)
(* Properties of the Cache.                                                *)
(***************************************************************************)
\* The step is a set or a bump that stored its key.
Stored ==
    /\ c_last'.op \in {"set", "bump"}
    /\ c_last'.result = Nothing
    /\ c_last'.now = c_now'
    /\ c_recent' # <<>>
    /\ c_recent'[Len(c_recent')] = c_last'.key

\* The keys that are in the cache when a key has been stored and the clock
\* reads now: the key itself and the keys stored before whose expiry is not
\* earlier than now, from the least to the most recently set or bumped.
Unexpired(key, now) ==
    SelectSeq(c_recent', LAMBDA k : k = key \/ (CacheHas(c_cache, k)
                                                /\ ~(CacheEntry(c_cache, k).expiry < now)))

\* C30: after every operation the cache holds at most maxsize entries, in
\* the order of their latest set or bump, which a get, pop, membership
\* test, len or iteration leaves as it is; a set or bump that overflows
\* evicts exactly the least recently set or bumped of the unexpired keys
\* and keeps the rest, its own key last; and no entry that get, pop,
\* membership or iteration returns has an expiry earlier than the clock's
\* reading in that call.
C30_CacheBounded ==
    /\ [](/\ Len(c_cache) <= c_maxsize
          /\ CacheKeysOf(c_cache) = SelectSeq(c_recent, LAMBDA k : CacheHas(c_cache, k))
          /\ \A i \in 1..Len(c_last.returned) : ~(c_last.returned[i].expiry < c_last.now)
          /\ \A i \in 1..Len(c_cache) : c_last.now = c_now => ~(c_cache[i].expiry < c_now)
                                                               \/ c_last.op = "delitem")
    /\ [][Stored =>
            LET unexpired == Unexpired(c_last'.key, c_now')
                overflow == IF Len(unexpired) > c_maxsize THEN Len(unexpired) - c_maxsize ELSE 0
            IN  /\ c_last'.evicted = SubSeq(unexpired, 1, overflow)
                /\ CacheKeysOf(c_cache') = SubSeq(unexpired, overflow + 1, Len(unexpired))]_vars

C30_Witness ==
    /\ c_maxsize = 2 /\ c_recent = <<"b", "a", "c">>
    /\ c_last.op = "set" /\ c_last.key = "c" /\ c_last.evicted = <<"b">>
    /\ CacheKeysOf(c_cache) = <<"a", "c">>
    /\ c_cache[1].expiry = c_now

(***************************************************************************)
(* Properties of the service registry.                                     *)
(***************************************************************************)
\* The slugs of the types that have a config.
RegisteredSlugs(subs) == {subs[i].slug : i \in {j \in 1..Len(subs) : subs[j].has_config}}

\* s lists the members of S, each once.
ListsExactly(s, S) == {s[i] : i \in 1..Len(s)} = S /\ Len(s) = Cardinality(S)

\* The step is a call of create.
CreateStep == ncalls' = ncalls + 1 /\ r_last'.op = "create"

\* C10: create(slug) for a slug that the available services (a mapping with
\* at least one entry, after the discovery create may run) do not hold fails
\* with InvalidServiceError, whatever the token (so before any credential
\* check); the error lists exactly the registered slugs, each once, and no
\* client is constructed.
C10_UnknownService ==
    [][(/\ CreateStep
        /\ RegisteredSlugs(subclasses') # {}
        /\ r_last'.service \notin RegisteredSlugs(subclasses'))
       => /\ r_last'.kind = "InvalidServiceError"
          /\ ListsExactly(r_last'.available_services, RegisteredSlugs(subclasses'))
          /\ clients' = clients]_vars

C10_Witness ==
    /\ r_last.op = "create" /\ r_last.kind = "InvalidServiceError"
    /\ r_last.service = "twitter" /\ r_last.token = Null
    /\ r_last.available_services = <<"other", "pixiv">>
    /\ \E i \in 1..Len(subclasses) : subclasses[i].requires_authorization
    /\ clients = <<>>

\* The registered types (those with a config) that declare slug.
TypesOf(subs, slug) == {subs[i] : i \in {j \in 1..Len(subs) : subs[j].has_config /\ subs[j].slug = slug}}

\* C11: create(slug, token=None) for a registered slug whose config requires
\* authorization fails with MissingTokenError and constructs no client: the
\* constructor, and with it any network activity of the client, never runs.
C11_MissingToken ==
    [][(/\ CreateStep
        /\ r_last'.token = Null
        /\ TypesOf(subclasses', r_last'.service) # {}
        /\ \A c \in TypesOf(subclasses', r_last'.service) : c.requires_authorization)
       => /\ r_last'.kind = "MissingTokenError"
          /\ clients' = clients]_vars

C11_Witness ==
    /\ r_last.op = "create" /\ r_last.kind = "MissingTokenError"
    /\ r_last.service = "pixiv" /\ r_last.token = Null /\ r_last.passes = 1
    /\ clients = <<>>

\* The slug of the config of the declared type cls.
SlugOfType(cls) == subclasses[CHOOSE i \in 1..Len(subclasses) : subclasses[i].cls = cls].slug

\* C12: the registry never resolves one slug to two different types: two
\* clients that create constructed for the same slug have the same type, also
\* when another type was declared with that slug in between.
C12_OneTypePerSlug ==
    \A i, j \in 1..Len(clients) :
        SlugOfType(clients[i][1]) = SlugOfType(clients[j][1]) => clients[i][1] = clients[j][1]

\* The step is a read of available_services.
LookupStep == ncalls' = ncalls + 1 /\ r_last'.op = "available_services"

\* C13: a read of available_services runs the discovery pass exactly when no
\* available type is registered, and then once; it raises RuntimeError
\* exactly when none is registered after that pass, and otherwise returns a
\* non-empty mapping of exactly the registered slugs; when a type is
\* registered the read imports nothing and declares nothing.
C13_OneDiscoveryPass ==
    [][LookupStep =>
        /\ r_last'.passes = (IF RegisteredSlugs(subclasses) = {} THEN 1 ELSE 0)
        /\ r_last'.raised <=> RegisteredSlugs(subclasses') = {}
        /\ r_last'.raised => r_last'.services = <<>>
        /\ ~r_last'.raised =>
              /\ r_last'.services # <<>>
              /\ ListsExactly(DictKeys(r_last'.services), RegisteredSlugs(subclasses'))
        /\ RegisteredSlugs(subclasses) # {} =>
              (subclasses' = subclasses /\ imported' = imported)]_vars

C13_Witness ==
    /\ r_last.op = "available_services" /\ r_last.raised /\ r_last.passes = 1
    /\ "twitter" \in imported /\ Len(subclasses) = 2

\* The filters of load_services let the module name through.
PassesFilters(name, include, exclude) ==
    /\ include # {} => name \in include
    /\ exclude # {} => name \notin exclude

\* C14: load_services(include, exclude) returns exactly the modules of the
\* services directory that pass the filters (exclude wins over include) and
\* whose import does not raise, in iteration order; a module whose import
\* raises does not keep the later modules from being imported.
C14_LoadServices ==
    (r_last.op = "load_services") =>
        /\ r_last.modules = SelectSeq(ModuleNames,
               LAMBDA n : PassesFilters(n, r_last.include, r_last.exclude) /\ n \notin broken)
        /\ \A i \in 1..Len(r_last.modules) : r_last.modules[i] \in imported
        /\ \A i \in 1..Len(r_last.modules) :
               \A k \in 1..Len(ModuleClasses(r_last.modules[i])) :
                   \E j \in 1..Len(subclasses) :
                       subclasses[j].cls = ModuleClasses(r_last.modules[i])[k].cls

C14_Witness ==
    /\ r_last.op = "load_services" /\ r_last.include = {} /\ r_last.exclude = {}
    /\ broken = {"pixiv"} /\ r_last.modules = <<"base", "twitter">>
    /\ \E j \in 1..Len(subclasses) : subclasses[j].cls = <<"Twitter", 0>>

\* C18: once load_services() has imported every service module,
\* create("twitter", token) returns a Twitter client constructed with that
\* token, for every token including None.
C18_TwitterConstructible ==
    [][(/\ CreateStep
        /\ {"pixiv", "twitter"} \subseteq imported
        /\ r_last'.service = "twitter")
       => /\ r_last'.kind = "client"
          /\ clients' = Append(clients, <<<<"Twitter", 0>>, r_last'.token>>)]_vars

(***************************************************************************)
(* Properties of the endpoint metadata.                                    *)
(***************************************************************************)
KeywordOnly(ps) == SelectSeq(ps, LAMBDA q : q.kind = "KEYWORD_ONLY")

\* C15: for a method named get_... whose docstring has several lines,
\* from_method returns the name without the get_ prefix, the first line of
\* the docstring as description, and exactly the keyword-only parameters,
\* in order, each with its name and declared type; to_schema renders each of
\* them with required = False.
C15_FirstDocLine ==
    (/\ schema # Null
     /\ method.name[1] = "get_"
     /\ method.doc # Null
     /\ Len(method.doc[1]) > 1)
    => /\ metadata[1].name = Tail(method.name)
       /\ metadata[1].description = <<method.doc[1][1]>>
       /\ Len(metadata[1].parameters) = Len(KeywordOnly(method.parameters))
       /\ \A i \in 1..Len(metadata[1].parameters) :
             /\ metadata[1].parameters[i].name = KeywordOnly(method.parameters)[i].name
             /\ metadata[1].parameters[i].type = KeywordOnly(method.parameters)[i].annotation
       /\ \A i \in 1..Len(metadata[1].parameters) :
             /\ schema[1].parameters[i + 2].name = metadata[1].parameters[i].name
             /\ schema[1].parameters[i + 2].required = FALSE

====
